---- MODULE Spec2Model ----
(***************************************************************************)
(* Verification model of the displacement-interpolation and transport      *)
(* metric code of Topological1D-WassersteinDistance:                       *)
(*   src/src/metrics/voronoi.py       VoronoiAnalyzer                      *)
(*   src/weaver/metrics/wasserstein.py WassersteinMetric                   *)
(*                                                                         *)
(* Arrays are sequences of rows; a row is a sequence of numbers.  Python   *)
(* index k is TLA+ index k+1.  Coordinates are integers (exact            *)
(* arithmetic); the value NF stands for a non-finite float (nan or inf).   *)
(***************************************************************************)
EXTENDS Integers, Sequences, FiniteSets, TLC

VARIABLES
    \* ---- VoronoiAnalyzer.pad_periodic_image ----
    positions,      \* argument: array of atomic positions
    cell,           \* argument: unit cell vectors
    n_a1,           \* argument: repeats in a1 direction
    n_a2,           \* argument: repeats in a2 direction
    pad_pc,         \* "call" before the call, "returned" after it
    offsets,        \* the local `offsets` (<<>> while not computed)
    pad_steps,      \* the statements of the body that ran, in order
    pad_ret,        \* "pending" | "None" | "array"
    padded_pos,     \* the returned array when pad_ret = "array"
    pad_log,        \* messages passed to self.logger.error
    \* ---- WassersteinMetric ----
    lattice_vectors,  \* self.lattice_vectors, set by __init__
    cell_area,        \* self.cell_area, set by __init__
    setA,             \* a point set handed to calculate_distance
    setB,             \* the other point set
    bandwidth,        \* the bandwidth argument (none: it is None), squared
    emd_fails,        \* environment: ot.emd raises when it is called
    callAB,           \* the call calculate_distance(setA, setB, bandwidth)
    callBA,           \* the call calculate_distance(setB, setA, bandwidth)
    \* ---- VoronoiAnalyzer.interpolate_displacements ----
    relaxed_points,          \* argument: positions after relaxation
    unrelaxed_points,        \* argument: initial positions
    query_points,            \* argument: points to interpolate
    pristine_cell,           \* argument: vertices of the pristine cell
    interp_pc,               \* "call" | "loop" | "after_loop" | "returned"
    interp_steps,            \* the stages of the body that were entered
    interp_log,              \* messages passed to self.logger.error
    interp_ret,              \* "pending" | "None" | "tuple"
    tri_relaxed,             \* Delaunay(relaxed_points)
    tri_unrelaxed,           \* Delaunay(unrelaxed_points)
    circumcenters_unrelaxed, \* the local of that name
    circumcenters_rbf,       \* the local of that name
    q_done,                  \* number of loop iterations that ended
    interp_trace,            \* history: how each iteration ended
    interpolated_pristine,   \* the list of that name
    interpolated_unrelaxed,  \* the list of that name
    rbf_global,              \* environment: whether the fit of the global
                             \* warp meets a singular system ("unknown"
                             \* until the fit is first made)
    rbf_fault,               \* environment: per site, the fit of a loop
                             \* iteration that meets a singular system
    \* ---- VoronoiAnalyzer.get_primitive_voronoi_cell ----
    pvc_lattice_vectors,     \* argument lattice_vectors
    pvc_pc,                  \* "call" before the call, "ended" after it
    pvc_ret,                 \* "pending" | "None" | "array" | "raised"
    pvc_vertices,            \* the returned array when pvc_ret = "array"
    pvc_exc,                 \* the exception that left the call, or "none"
    pvc_log,                 \* messages passed to the logger
    \* ---- VoronoiAnalyzer._calculate_circumcenter ----
    cc_triangle,             \* argument triangle: three points
    cc_exponent,             \* the coordinates are in units of 10^-cc_exponent
    cc_pc,                   \* "call" before the call, "returned" after it
    cc_result,               \* the returned point num / den, in those units
    \* ---- a caller making several calls on one analyzer and one metric ----
    calls_made,              \* number of calls started
    passed,                  \* the call in progress and a copy of the
                             \* arguments as they were when it started
    hist_pad,                \* the pad_periodic_image calls that returned
    hist_dist,               \* the calculate_distance calls that returned
    hist_interp,             \* the interpolate_displacements calls that
                             \* returned
    \* ---- scripts/3_calculate_distances.py main ----
    structure_sound,         \* per structure found in relaxed_dir: whether
                             \* the body of process_structure would reach
                             \* a distance for it
    n_cpus,                  \* environment: mp.cpu_count()
    batch_pc,                \* "start" | "map" | "ended"
    chunks_done,             \* the chunks of the map that a worker finished
    batch_called,            \* the structures process_structure was called
                             \* for
    batch_results,           \* per structure, how its call ended
    batch_output,            \* the rows saved to args.output, or "absent"
    batch_ret,               \* the return value of main, or "pending"
    batch_log,               \* messages passed to logger.error
    \* ---- weaver/corruption/generate.py ModelCorruptor ----
    base_model,              \* the parameters stored in the base model file
    model,                   \* the parameters of self.model
    noise_arrays,            \* self.noise_arrays
    seed_dirs,               \* per seed, the directory
                             \* <output_dir>/<stem>_corrupted_SEED_<seed>
    seeds_todo,              \* the seeds of the corrupt_model calls that
                             \* the caller has yet to make
    corrupt_history,         \* per call made: seed, outcome, what was saved
    corrupt_log,             \* messages passed to self.logger.error
    \* ---- scripts/4_process_distances.py process_distances ----
    distances_array,         \* argument: rows [seed, corruption_idx,
                             \* distance]
    process_pc,              \* "call" before the call, "returned" after it
    process_ret,             \* "pending" | "array" | "None"
    final_array,             \* the rows of the returned array
    process_log,             \* messages passed to logger.error
    \* ---- locals of one iteration of the loop of interpolate_displacements ----
    iteration,               \* the vertex arrays and the warped point of the
                             \* iteration that ran last
    find_calls,              \* the _find_voronoi_cell calls of that
                             \* iteration: arguments and result
    map_calls                \* the _map_to_cell calls of that iteration:
                             \* arguments, centred arrays and col_ind

padVars == <<positions, cell, n_a1, n_a2, pad_pc, offsets, pad_steps,
             pad_ret, padded_pos, pad_log>>

distVars == <<lattice_vectors, cell_area, setA, setB, bandwidth, emd_fails,
              callAB, callBA>>

interpVars == <<relaxed_points, unrelaxed_points, query_points,
                pristine_cell, interp_pc, interp_steps, interp_log,
                interp_ret, tri_relaxed, tri_unrelaxed,
                circumcenters_unrelaxed, circumcenters_rbf, q_done,
                interp_trace, interpolated_pristine, interpolated_unrelaxed,
                rbf_global, rbf_fault>>

pvcVars == <<pvc_lattice_vectors, pvc_pc, pvc_ret, pvc_vertices, pvc_exc,
             pvc_log>>

ccVars == <<cc_triangle, cc_exponent, cc_pc, cc_result>>

callsVars == <<calls_made, passed, hist_pad, hist_dist, hist_interp>>

batchVars == <<structure_sound, n_cpus, batch_pc, chunks_done, batch_called,
               batch_results, batch_output, batch_ret, batch_log>>

corruptVars == <<base_model, model, noise_arrays, seed_dirs, seeds_todo,
                 corrupt_history, corrupt_log>>

processVars == <<distances_array, process_pc, process_ret, final_array,
                 process_log>>

cellVars == <<iteration, find_calls, map_calls>>

vars == <<padVars, distVars, interpVars, pvcVars, ccVars, callsVars,
          batchVars, corruptVars, processVars, cellVars>>

----------------------------------------------------------------------------
(* Bounds of the model *)

\* largest number of rows of the positions argument of pad_periodic_image
MaxPadPts == 2
\* largest repeat count n_a1 / n_a2 tried
MaxRepeat == 2
\* largest number of entries |A| * |B| of the cost matrix of one
\* calculate_distance
MaxCostEntries == 4
\* fixed-point resolution of a Euclidean norm: norms are kept in units of
\* 1/NormScale, rounded down
NormScale == 8

----------------------------------------------------------------------------
(* numpy helpers *)

\* np.arange(a, b)
Arange(a, b) == [k \in 1..(IF b > a THEN b - a ELSE 0) |-> a + k - 1]

\* arr.shape of a 2-D array given as a sequence of rows
Shape(arr) == <<Len(arr), IF Len(arr) = 0 THEN 0 ELSE Len(arr[1])>>

\* arr.size
Size(arr) == Shape(arr)[1] * Shape(arr)[2]

\* elementwise a + b and scalar * vector, for rows of equal length
VecAdd(a, b) == [k \in 1..Len(a) |-> a[k] + b[k]]
VecScale(s, a) == [k \in 1..Len(a) |-> s * a[k]]

----------------------------------------------------------------------------
(* VoronoiAnalyzer.pad_periodic_image, voronoi.py 52-93 *)

\* (variant of PadInvalid that accepts a repeat count of 0)
PadInvalidRepeatZeroAccepted(pos, c, na1, na2) ==
    \/ Size(pos) = 0
    \/ Shape(c) # <<2, 2>>
    \/ na1 < 0 \/ na2 < 0

\* the three validation tests of lines 73-78; TRUE when one raises ValueError
PadInvalid(pos, c, na1, na2) ==
    \/ Size(pos) = 0
    \/ Shape(c) # <<2, 2>>
    \/ na1 < 1 \/ na2 < 1

\* (variant of RepeatRange whose non-negative part stops at n - 1)
RepeatRangeShort(n) == Arange(0, n) \o Arange(-n, 0)

\* (variant of RepeatRange that grows with the number of calls that the
\* analyzer has served)
RepeatRangeGrowing(n) ==
    Arange(0, n + 1 + Cardinality(hist_pad)) \o Arange(-n, 0)

\* np.concatenate((np.arange(0, n + 1), np.arange(-n, 0)))   (lines 80, 81)
RepeatRange(n) == Arange(0, n + 1) \o Arange(-n, 0)

\* (variant of MeshI for np.meshgrid(..., indexing='ij'): i changes slowest)
MeshIMatrixIndexing(i_range, j_range) ==
    [q \in 1..(Len(j_range) * Len(i_range)) |->
        i_range[((q - 1) \div Len(j_range)) + 1]]

\* i, j = np.meshgrid(i_range, j_range); i, j = i.flatten(), j.flatten()
\* (lines 82, 83): row r, column c of the grids holds i_range[c], j_range[r];
\* flatten is row-major.
MeshI(i_range, j_range) ==
    [q \in 1..(Len(j_range) * Len(i_range)) |->
        i_range[((q - 1) % Len(i_range)) + 1]]
MeshJ(i_range, j_range) ==
    [q \in 1..(Len(j_range) * Len(i_range)) |->
        j_range[((q - 1) \div Len(i_range)) + 1]]

\* offsets = i[:, None] * cell[0] + j[:, None] * cell[1]      (line 85)
PadOffsets(c, na1, na2) ==
    LET i == MeshI(RepeatRange(na1), RepeatRange(na2))
        j == MeshJ(RepeatRange(na1), RepeatRange(na2))
    IN  [q \in 1..Len(i) |-> VecAdd(VecScale(i[q], c[1]), VecScale(j[q], c[2]))]

\* padded_pos = positions[None, :, :] + offsets[:, None, :]; reshape(-1, 2)
\* (lines 86, 88): block q holds positions shifted by offsets[q].
PadReshape(pos, offs) ==
    [r \in 1..(Len(offs) * Len(pos)) |->
        VecAdd(pos[((r - 1) % Len(pos)) + 1],
               offs[((r - 1) \div Len(pos)) + 1])]

----------------------------------------------------------------------------
(* Inputs tried for pad_periodic_image *)

PadGrid == {<<0, 0>>, <<1, 0>>, <<0, 1>>}

PadPositions ==
    UNION {[1..n -> PadGrid] : n \in 0..MaxPadPts}

PadCells ==
    {<<<<3, 0>>, <<0, 3>>>>,            \* square cell
     <<<<3, 0>>, <<-1, 2>>>>,           \* oblique cell
     <<<<3, 0>>>>,                      \* shape (1, 2)
     <<<<3, 0, 0>>, <<0, 3, 0>>>>,      \* shape (2, 3)
     <<<<3, 0>>, <<0, 3>>, <<0, 0>>>>}  \* shape (3, 2)

PadRepeats == 0..MaxRepeat

PadInit ==
    /\ positions \in PadPositions
    /\ cell \in PadCells
    /\ n_a1 \in PadRepeats
    /\ n_a2 \in PadRepeats
    /\ pad_pc = "call"
    /\ offsets = <<>>
    /\ pad_steps = <<>>
    /\ pad_ret = "pending"
    /\ padded_pos = <<>>
    /\ pad_log = <<>>

\* One call of pad_periodic_image(positions, cell, n_a1, n_a2).
PadCall ==
    /\ pad_pc = "call"
    /\ pad_pc' = "returned"
    /\ IF PadInvalid(positions, cell, n_a1, n_a2)
         THEN \* raise ValueError in the try block, caught at line 90
              /\ pad_steps' = <<"validate", "except">>
              /\ offsets' = <<>>
              /\ pad_log' = <<"Error padding periodic images">>
              /\ pad_ret' = "None"
              /\ padded_pos' = <<>>
         ELSE /\ pad_steps' = <<"validate", "offsets", "broadcast", "reshape">>
              /\ offsets' = PadOffsets(cell, n_a1, n_a2)
              /\ pad_log' = <<>>
              /\ pad_ret' = "array"
              /\ padded_pos' = PadReshape(positions, PadOffsets(cell, n_a1, n_a2))
    /\ UNCHANGED <<positions, cell, n_a1, n_a2>>

\* the argument bandwidth=None
BandwidthNone == [none |-> TRUE, num |-> 0, den |-> 1]

\* no calculate_distance call is part of this specification
DistIdle ==
    /\ lattice_vectors = <<>>
    /\ cell_area = 0
    /\ setA = <<>>
    /\ setB = <<>>
    /\ bandwidth = BandwidthNone
    /\ emd_fails = FALSE
    /\ callAB = [status |-> "idle"]
    /\ callBA = [status |-> "idle"]

\* the locals of interpolate_displacements before anything is computed
InterpLocalsInit ==
    /\ interp_steps = <<>>
    /\ interp_log = <<>>
    /\ interp_ret = "pending"
    /\ tri_relaxed = [raised |-> FALSE, simplices |-> <<>>]
    /\ tri_unrelaxed = [raised |-> FALSE, simplices |-> <<>>]
    /\ circumcenters_unrelaxed = <<>>
    /\ circumcenters_rbf = <<>>
    /\ q_done = 0
    /\ interp_trace = <<>>
    /\ interpolated_pristine = <<>>
    /\ interpolated_unrelaxed = <<>>

\* no interpolate_displacements call is part of this specification
InterpIdle ==
    /\ relaxed_points = <<>>
    /\ unrelaxed_points = <<>>
    /\ query_points = <<>>
    /\ pristine_cell = <<>>
    /\ interp_pc = "idle"
    /\ InterpLocalsInit
    /\ rbf_global = "unknown"
    /\ rbf_fault = <<>>

\* no get_primitive_voronoi_cell call is part of this specification
PvcIdle ==
    /\ pvc_lattice_vectors = <<>>
    /\ pvc_pc = "idle"
    /\ pvc_ret = "pending"
    /\ pvc_vertices = <<>>
    /\ pvc_exc = "none"
    /\ pvc_log = <<>>

\* no _calculate_circumcenter call of its own is part of this specification
CcIdle ==
    /\ cc_triangle = <<>>
    /\ cc_exponent = 0
    /\ cc_pc = "idle"
    /\ cc_result = <<>>

\* no call is in progress
NoCall == [fn |-> "none", args |-> <<>>]

\* no caller making several calls is part of this specification
CallsIdle ==
    /\ calls_made = 0
    /\ passed = NoCall
    /\ hist_pad = {}
    /\ hist_dist = {}
    /\ hist_interp = {}

\* no run of the batch distance script is part of this specification
BatchIdle ==
    /\ structure_sound = <<>>
    /\ n_cpus = 0
    /\ batch_pc = "idle"
    /\ chunks_done = {}
    /\ batch_called = {}
    /\ batch_results = <<>>
    /\ batch_output = "absent"
    /\ batch_ret = "pending"
    /\ batch_log = <<>>

\* no ModelCorruptor is part of this specification
CorruptIdle ==
    /\ base_model = <<>>
    /\ model = <<>>
    /\ noise_arrays = <<>>
    /\ seed_dirs = <<>>
    /\ seeds_todo = <<>>
    /\ corrupt_history = <<>>
    /\ corrupt_log = <<>>

\* no call of process_distances is part of this specification
ProcessIdle ==
    /\ distances_array = <<>>
    /\ process_pc = "idle"
    /\ process_ret = "pending"
    /\ final_array = <<>>
    /\ process_log = <<>>

\* no iteration of the loop of interpolate_displacements is followed in
\* detail
NoIteration == [outcome |-> "none"]

CellIdle ==
    /\ iteration = NoIteration
    /\ find_calls = <<>>
    /\ map_calls = <<>>

PadNext == PadCall /\ UNCHANGED <<distVars, interpVars, pvcVars, ccVars,
            callsVars, batchVars, corruptVars,
            processVars, cellVars>>

InitPad ==
    PadInit /\ DistIdle /\ InterpIdle /\ PvcIdle /\ CcIdle /\ CallsIdle
      /\ BatchIdle /\ CorruptIdle /\ ProcessIdle
      /\ CellIdle

SpecPad == InitPad /\ [][PadNext]_vars

----------------------------------------------------------------------------
(* Claims about pad_periodic_image *)

\* number of rows of arr equal to v
CountRows(arr, v) == Cardinality({r \in 1..Len(arr) : arr[r] = v})

\* the (p, i, j) combinations whose image p + i*a1 + j*a2 is v
ImagesAt(v) ==
    {t \in (1..Len(positions)) \X (-n_a1..n_a1) \X (-n_a2..n_a2) :
        VecAdd(positions[t[1]],
               VecAdd(VecScale(t[2], cell[1]), VecScale(t[3], cell[2]))) = v}

\* every value some (p, i, j) combination produces
ImageValues ==
    {VecAdd(positions[t[1]],
            VecAdd(VecScale(t[2], cell[1]), VecScale(t[3], cell[2]))) :
        t \in (1..Len(positions)) \X (-n_a1..n_a1) \X (-n_a2..n_a2)}

\* the preconditions of C1: N >= 1 rows of 2 columns, a 2x2 cell, r1, r2 >= 1
PadArgsValid ==
    /\ Len(positions) >= 1
    /\ Shape(cell) = <<2, 2>>
    /\ n_a1 >= 1 /\ n_a2 >= 1

\* C1: for valid arguments pad_periodic_image returns exactly
\* N*(2*r1+1)*(2*r2+1) points, and the returned rows are the multiset
\* { p + i*a1 + j*a2 } with every (p, i, j) combination occurring once.
C1_PadCountAndMultiset ==
    (pad_pc = "returned" /\ PadArgsValid) =>
        /\ pad_ret = "array"
        /\ Len(padded_pos) = Len(positions) * (2 * n_a1 + 1) * (2 * n_a2 + 1)
        /\ \A v \in ImageValues \cup {padded_pos[r] : r \in 1..Len(padded_pos)} :
              CountRows(padded_pos, v) = Cardinality(ImagesAt(v))

\* C1 witness: a returned padding of two points with r1 = 2, r2 = 1 in an
\* oblique cell
C1_Witness ==
    /\ pad_pc = "returned"
    /\ pad_ret = "array"
    /\ Len(positions) = 2
    /\ n_a1 = 2 /\ n_a2 = 1
    /\ cell = <<<<3, 0>>, <<-1, 2>>>>
    /\ Len(padded_pos) = 30

\* C10: with an empty point set, a cell that is not 2x2 or a repeat count
\* below 1 the call ends in the validation failure: the error is logged, no
\* point set is returned, and no offset was computed.
C10_PadValidationFails ==
    (pad_pc = "returned" /\ ~PadArgsValid) =>
        /\ pad_ret = "None"
        /\ padded_pos = <<>>
        /\ offsets = <<>>
        /\ pad_steps = <<"validate", "except">>
        /\ pad_log = <<"Error padding periodic images">>

\* C10 witness: a call rejected only for its repeat count
C10_Witness ==
    /\ pad_pc = "returned"
    /\ pad_ret = "None"
    /\ Len(positions) = 2
    /\ Shape(cell) = <<2, 2>>
    /\ n_a1 = 0 /\ n_a2 = 1

\* the translation index that stands at place c = 0..2n of the repeat range
\* of n: 0, 1, ..., n, -n, ..., -1
TranslationIndex(c, n) == IF c <= n THEN c ELSE c - (2 * n + 1)

\* the site and the translation indices (i, j) that the block order gives
\* to output row k = 0.. for N sites: a function of k, N and the repeat
\* counts alone
RowSite(k, N) == k % N
RowI(k, N, r1) == TranslationIndex((k \div N) % (2 * r1 + 1), r1)
RowJ(k, N, r1, r2) == TranslationIndex((k \div N) \div (2 * r1 + 1), r2)

\* C28: the output of pad_periodic_image is in a block order fixed by the
\* repeat counts: output row q*N + p is positions[p] + offset_q, where the
\* translation indices of offset_q depend on q and the repeat counts only,
\* and the first block is the unshifted input.  So equally sized point sets
\* padded with the same repeat counts correspond row by row.
C28_FixedBlockOrder ==
    (pad_pc = "returned" /\ pad_ret = "array") =>
        LET N == Len(positions)
        IN  /\ \A k \in 0..(Len(padded_pos) - 1) :
                  padded_pos[k + 1] =
                      VecAdd(positions[RowSite(k, N) + 1],
                             VecAdd(VecScale(RowI(k, N, n_a1), cell[1]),
                                    VecScale(RowJ(k, N, n_a1, n_a2),
                                             cell[2])))
            /\ \A p \in 1..N : padded_pos[p] = positions[p]

\* C28 witness: two sites padded with r1 = 1, r2 = 2 in an oblique cell; the
\* row 2*10 + 1 of the returned array is the second site translated by
\* i = 1, j = -2
C28_Witness ==
    /\ pad_pc = "returned"
    /\ pad_ret = "array"
    /\ Len(positions) = 2
    /\ positions[1] # positions[2]
    /\ n_a1 = 1 /\ n_a2 = 2
    /\ cell = <<<<3, 0>>, <<-1, 2>>>>
    /\ RowI(21, 2, 1) = 1 /\ RowJ(21, 2, 1, 2) = -2
    /\ padded_pos[22] = VecAdd(positions[2], <<5, -4>>)

----------------------------------------------------------------------------
(* Numbers of the transport metric.                                        *)
(* A rational is a record [num, den] with den > 0; a rational vector or    *)
(* matrix keeps one common denominator.  NF is a non-finite float.         *)

\* a non-finite float (nan or inf), as tested by np.isnan / np.isinf
NF == 1000000

IsNF(x) == x = NF

\* float addition and multiplication: a non-finite operand gives a
\* non-finite result (inf - inf and 0 * inf are nan)
FAdd(x, y) == IF IsNF(x) \/ IsNF(y) THEN NF ELSE x + y
FMul(x, y) == IF IsNF(x) \/ IsNF(y) THEN NF ELSE x * y

FVecAdd(a, b) == [k \in 1..Len(a) |-> FAdd(a[k], b[k])]
FVecScale(s, a) == [k \in 1..Len(a) |-> FMul(s, a[k])]
VecSub(a, b) == [k \in 1..Len(a) |-> a[k] - b[k]]

RECURSIVE SumSeq(_)
SumSeq(s) == IF Len(s) = 0 THEN 0 ELSE s[1] + SumSeq(Tail(s))

RECURSIVE Gcd(_, _)
Gcd(x, y) == IF y = 0 THEN x ELSE Gcd(y, x % y)

RECURSIVE GcdSeq(_)
GcdSeq(s) == IF Len(s) = 0 THEN 0 ELSE Gcd(s[1], GcdSeq(Tail(s)))

\* the rational vector num / den in lowest terms
RatVec(num, den) ==
    LET g == Gcd(den, GcdSeq(num))
    IN  IF g = 0 THEN [num |-> num, den |-> den]
        ELSE [num |-> [i \in 1..Len(num) |-> num[i] \div g],
              den |-> den \div g]

MinOf(S) == CHOOSE m \in S : \A x \in S : m <= x

\* bisection: lo * lo <= n < hi * hi throughout
RECURSIVE ISqrtBetween(_, _, _)
ISqrtBetween(n, lo, hi) ==
    IF hi - lo <= 1 THEN lo
    ELSE LET mid == (lo + hi) \div 2
         IN  IF mid * mid <= n THEN ISqrtBetween(n, mid, hi)
                               ELSE ISqrtBetween(n, lo, mid)

\* floor of the square root of n
ISqrt(n) == ISqrtBetween(n, 0, n + 1)

\* squared Euclidean length of a finite vector
Norm2(v) == SumSeq([k \in 1..Len(v) |-> v[k] * v[k]])

\* np.linalg.norm(v) in units of 1/NormScale, rounded down
Norm(v) == ISqrt(NormScale * NormScale * Norm2(v))

----------------------------------------------------------------------------
(* WassersteinMetric._calculate_cost_matrix, wasserstein.py 141-177 *)

\* (variant of CostOffsets whose ranges are range(0, 3))
CostOffsetsNonNegative(lv) ==
    [k \in 1..9 |->
        FVecAdd(FVecScale((k - 1) \div 3, lv[1]),
                FVecScale((k - 1) % 3, lv[2]))]

\* offsets = [i*a1 + j*a2 for i in range(-2, 3) for j in range(-2, 3)]
\* (lines 158-162): i is the outer loop, j the inner one.
CostOffsets(lv) ==
    [k \in 1..25 |->
        FVecAdd(FVecScale(((k - 1) \div 5) - 2, lv[1]),
                FVecScale(((k - 1) % 5) - 2, lv[2]))]

\* diff = points1[:, None, :] - points2[None, :, :]            (line 165)
CostDiff(points1, points2) ==
    [a \in 1..Len(points1) |->
        [b \in 1..Len(points2) |-> VecSub(points1[a], points2[b])]]

\* diff_periodic = diff[None, :, :, :] + offsets[:, None, None, :] (line 166)
DiffPeriodic(points1, points2, lv) ==
    LET diff == CostDiff(points1, points2)
        offs == CostOffsets(lv)
    IN  [o \in 1..Len(offs) |->
            [a \in 1..Len(points1) |->
                [b \in 1..Len(points2) |-> FVecAdd(diff[a][b], offs[o])]]]

\* np.any(np.isnan(diff_periodic)) or np.any(np.isinf(diff_periodic))
\* (line 169)
HasNonFinite(dp) ==
    \E o \in DOMAIN dp : \E a \in DOMAIN dp[o] : \E b \in DOMAIN dp[o][a] :
        \E k \in DOMAIN dp[o][a][b] : IsNF(dp[o][a][b][k])

\* (variant of MinNorm that takes the norm of the first image only)
MinNormFirstImage(dp, points1, points2) ==
    [a \in 1..Len(points1) |->
        [b \in 1..Len(points2) |-> Norm(dp[1][a][b])]]

\* np.min(np.linalg.norm(diff_periodic, axis=-1), axis=0)       (line 172)
MinNorm(dp, points1, points2) ==
    [a \in 1..Len(points1) |->
        [b \in 1..Len(points2) |->
            MinOf({Norm(dp[o][a][b]) : o \in DOMAIN dp})]]

\* the outcome of _calculate_cost_matrix: the matrix, or the ValueError of
\* line 170 re-raised at line 177
CalculateCostMatrix(points1, points2, lv) ==
    LET dp == DiffPeriodic(points1, points2, lv)
    IN  IF HasNonFinite(dp)
          THEN [raised |-> TRUE, value |-> <<>>]
          ELSE [raised |-> FALSE, value |-> MinNorm(dp, points1, points2)]

----------------------------------------------------------------------------
(* WassersteinMetric._calculate_density, wasserstein.py 106-139 *)

\* the Gaussian exp(-k/4) in units of 1/16, rounded, for k = 0..13; it
\* rounds to 0 from k = 14 on
GaussTable == <<16, 12, 10, 8, 6, 5, 4, 3, 2, 2, 1, 1, 1, 1>>

\* the kernel of KernelDensity(kernel='gaussian', metric='euclidean'):
\* exp(-d2 / (2 h^2)) for squared distance d2 and squared bandwidth
\* h^2 = h2.num / h2.den, the exponent rounded down to a multiple of 1/4
GaussKernel(d2, h2) ==
    LET k == (4 * d2 * h2.den) \div (2 * h2.num)
    IN  IF k < Len(GaussTable) THEN GaussTable[k + 1] ELSE 0

\* KernelDensity rejects a bandwidth that is not positive
KernelDensityRaises(h2) == h2.num <= 0

\* kde.fit(points); np.exp(kde.score_samples(points))   (lines 128-130), up
\* to the factor 1 / (N * 2 pi h^2) common to all entries, which line 133
\* divides out
KdeScores(points, h2) ==
    [i \in 1..Len(points) |->
        SumSeq([j \in 1..Len(points) |->
                   GaussKernel(Norm2(VecSub(points[i], points[j])), h2)])]

\* density * (len(points) / np.sum(density))                (lines 133, 134)
CalculateDensity(points, h2) ==
    LET density == KdeScores(points, h2)
    IN  RatVec([i \in 1..Len(points) |-> density[i] * Len(points)],
               SumSeq(density))

----------------------------------------------------------------------------
(* ot.emd(a, b, M): an optimal basic transport plan.                      *)
(* a and b are rational vectors of sum 1.  The plan is kept in units of    *)
(* 1 / (a.den * b.den), in which all masses are integers.                  *)

Supply(a, b) == [i \in 1..Len(a.num) |-> a.num[i] * b.den]
Demand(a, b) == [j \in 1..Len(b.num) |-> b.num[j] * a.den]

ZeroPlan(n, m) == [i \in 1..n |-> [j \in 1..m |-> 0]]

\* the basic feasible plans: fill a cell with the smaller of the remaining
\* supply of its row and the remaining demand of its column, and go on
RECURSIVE BasicPlans(_, _, _)
BasicPlans(supply, demand, plan) ==
    LET rows == {i \in DOMAIN supply : supply[i] > 0}
        cols == {j \in DOMAIN demand : demand[j] > 0}
    IN  IF rows = {} \/ cols = {} THEN {plan}
        ELSE UNION {
            LET m == IF supply[c[1]] <= demand[c[2]]
                       THEN supply[c[1]] ELSE demand[c[2]]
            IN  BasicPlans([supply EXCEPT ![c[1]] = @ - m],
                           [demand EXCEPT ![c[2]] = @ - m],
                           [plan EXCEPT ![c[1]][c[2]] = @ + m])
            : c \in rows \X cols}

\* the cost of a plan: the sum of mass times unit cost
TransportCost(plan, M) ==
    SumSeq([i \in 1..Len(plan) |->
               SumSeq([j \in 1..Len(plan[i]) |-> plan[i][j] * M[i][j]])])

\* the plans ot.emd may return: the basic feasible plans of least cost
Emd(a, b, M) ==
    LET plans == BasicPlans(Supply(a, b), Demand(a, b),
                            ZeroPlan(Len(a.num), Len(b.num)))
        best == MinOf({TransportCost(t, M) : t \in plans})
    IN  {[num |-> t, den |-> a.den * b.den] :
            t \in {u \in plans : TransportCost(u, M) = best}}

----------------------------------------------------------------------------
(* WassersteinMetric.calculate_distance, wasserstein.py 32-104 *)

NoVec == [num |-> <<>>, den |-> 1]

\* the squared bandwidth: the argument, or for None (lines 58, 59)
\* (norm(a1) / sqrt(4 * len(displacements1)))^2 = |a1|^2 / (4 * len)
BandwidthSquared(bw, displacements1, lv) ==
    IF bw.none
      THEN [num |-> Norm2(lv[1]), den |-> 4 * Len(displacements1)]
      ELSE [num |-> bw.num, den |-> bw.den]

\* density / np.sum(density)                                  (lines 71, 72)
NormalizeDensity(density) == RatVec(density.num, SumSeq(density.num))

\* (variant of UniformDensity without the division by the length)
UniformDensityNotDivided(density_norm) ==
    [num |-> [i \in 1..Len(density_norm.num) |-> 1], den |-> 1]

\* np.ones_like(density_norm) / len(density_norm)             (lines 75, 76)
UniformDensity(density_norm) ==
    RatVec([i \in 1..Len(density_norm.num) |-> 1], Len(density_norm.num))

\* (variant of PlanCost that multiplies the two sums)
PlanCostOfSums(plan, M) ==
    SumSeq([i \in 1..Len(plan) |-> SumSeq(plan[i])])
        * SumSeq([i \in 1..Len(M) |-> SumSeq(M[i])])

\* np.sum(transport_matrix * cost_matrix)                     (lines 96, 97)
PlanCost(plan, M) ==
    SumSeq([i \in 1..Len(plan) |->
               SumSeq([j \in 1..Len(plan[i]) |-> plan[i][j] * M[i][j]])])

\* a call that ended in `raise` (line 104) after the statements `steps`
DistRaised(steps, log) ==
    [status |-> "raised", steps |-> steps, log |-> log,
     density1_norm |-> NoVec, density2_norm |-> NoVec,
     density1_uniform |-> NoVec, density2_uniform |-> NoVec,
     cost_matrix |-> <<>>,
     transport_matrix |-> NoVec, transport_matrix_uniform |-> NoVec,
     distance |-> NoVec, distance_uniform |-> NoVec]

\* (variant of DistInvalid that tests the shape of the first set only)
DistInvalidFirstOnly(displacements1, displacements2) ==
    \/ Size(displacements1) = 0 \/ Size(displacements2) = 0
    \/ Shape(displacements1)[2] # 2

\* the validation of lines 52-55; TRUE when one of the two tests raises
DistInvalid(displacements1, displacements2) ==
    \/ Size(displacements1) = 0 \/ Size(displacements2) = 0
    \/ Shape(displacements1)[2] # 2 \/ Shape(displacements2)[2] # 2

\* the outcomes of calculate_distance(displacements1, displacements2, bw) on
\* a metric with lattice vectors lv; emdRaises: ot.emd raises
CalculateDistance(displacements1, displacements2, bw, lv, emdRaises) ==
    IF DistInvalid(displacements1, displacements2)
      THEN {DistRaised(<<"validate">>,
                       <<"Error calculating Wasserstein distance">>)}
    ELSE LET h2 == BandwidthSquared(bw, displacements1, lv) IN
    IF KernelDensityRaises(h2)
      THEN {DistRaised(<<"validate", "bandwidth", "density">>,
                       <<"Error calculating density",
                         "Error calculating densities",
                         "Error calculating Wasserstein distance">>)}
    ELSE LET density1 == CalculateDensity(displacements1, h2)
             density2 == CalculateDensity(displacements2, h2)
             density1_norm == NormalizeDensity(density1)
             density2_norm == NormalizeDensity(density2)
             density1_uniform == UniformDensity(density1_norm)
             density2_uniform == UniformDensity(density2_norm)
             cost == CalculateCostMatrix(displacements1, displacements2, lv)
         IN
    IF cost.raised
      THEN {DistRaised(<<"validate", "bandwidth", "density", "normalize",
                         "uniform", "cost">>,
                       <<"Error calculating cost matrix",
                         "Error calculating cost matrix",
                         "Error calculating Wasserstein distance">>)}
    ELSE IF emdRaises
      THEN {DistRaised(<<"validate", "bandwidth", "density", "normalize",
                         "uniform", "cost", "emd">>,
                       <<"Error calculating optimal transport",
                         "Error calculating Wasserstein distance">>)}
    ELSE {[status |-> "returned",
           steps |-> <<"validate", "bandwidth", "density", "normalize",
                       "uniform", "cost", "emd", "distance">>,
           log |-> <<>>,
           density1_norm |-> density1_norm, density2_norm |-> density2_norm,
           density1_uniform |-> density1_uniform,
           density2_uniform |-> density2_uniform,
           cost_matrix |-> cost.value,
           transport_matrix |-> t, transport_matrix_uniform |-> tu,
           distance |-> [num |-> PlanCost(t.num, cost.value), den |-> t.den],
           distance_uniform |->
               [num |-> PlanCost(tu.num, cost.value), den |-> tu.den]] :
          t \in Emd(density1_norm, density2_norm, cost.value),
          tu \in Emd(density1_uniform, density2_uniform, cost.value)}

----------------------------------------------------------------------------
(* Inputs tried for calculate_distance *)

DistGrid == {<<0, 0>>, <<2, 0>>, <<1, 1>>}

\* point sets of n points
DistSetsOf(n) == [1..n -> DistGrid]

\* pairs of valid point sets, and pairs with an empty or a 3-column set
DistPairs ==
    UNION {DistSetsOf(s[1]) \X DistSetsOf(s[2]) :
              s \in {t \in (1..MaxCostEntries) \X (1..MaxCostEntries) :
                         t[1] * t[2] <= MaxCostEntries}} \cup
    {<<<<>>, <<<<0, 0>>>>>>, <<<<<<0, 0>>>>, <<>>>>,
     <<<<<<0, 0, 0>>>>, <<<<0, 0>>>>>>, <<<<<<0, 0>>>>, <<<<1, 0, 0>>>>>>}

SquareLattice == <<<<2, 0>>, <<0, 2>>>>
ObliqueLattice == <<<<2, 0>>, <<1, 2>>>>

\* np.abs(np.linalg.det(lattice_vectors)) of a 2x2 array
CellArea(lv) ==
    IF \E r, c \in 1..2 : IsNF(lv[r][c])
      THEN NF
      ELSE LET det == lv[1][1] * lv[2][2] - lv[1][2] * lv[2][1]
           IN  IF det < 0 THEN -det ELSE det

\* the metrics, bandwidth arguments and solver behaviours tried
DistConfigs ==
    {[lv |-> SquareLattice, bw |-> BandwidthNone, emd_fails |-> FALSE],
     [lv |-> SquareLattice, bw |-> BandwidthNone, emd_fails |-> TRUE],
     \* a bandwidth of sqrt(1/2)
     [lv |-> SquareLattice, bw |-> [none |-> FALSE, num |-> 1, den |-> 2],
      emd_fails |-> FALSE],
     [lv |-> ObliqueLattice, bw |-> BandwidthNone, emd_fails |-> FALSE],
     \* a1 = 0: the default bandwidth is 0
     [lv |-> <<<<0, 0>>, <<0, 2>>>>, bw |-> BandwidthNone, emd_fails |-> FALSE],
     \* a non-finite lattice entry
     [lv |-> <<<<2, 0>>, <<0, NF>>>>, bw |-> BandwidthNone, emd_fails |-> FALSE]}

\* WassersteinMetric(lattice_vectors) constructed (lines 21-25), and the
\* arguments of the calls chosen
DistInit ==
    /\ \E c \in DistConfigs :
          /\ lattice_vectors = c.lv
          /\ cell_area = CellArea(c.lv)
          /\ bandwidth = c.bw
          /\ emd_fails = c.emd_fails
    /\ \E p \in DistPairs : setA = p[1] /\ setB = p[2]
    /\ callAB = [status |-> "pending"]
    /\ callBA = [status |-> "pending"]

\* calculate_distance(setA, setB, bandwidth)
CallAB ==
    /\ callAB.status = "pending"
    /\ callAB' \in CalculateDistance(setA, setB, bandwidth,
                                    lattice_vectors, emd_fails)
    /\ UNCHANGED <<lattice_vectors, cell_area, setA, setB, bandwidth, emd_fails,
                   callBA>>

\* calculate_distance(setB, setA, bandwidth), by a caller whose first call
\* returned
CallBA ==
    /\ callAB.status = "returned"
    /\ callBA.status = "pending"
    /\ callBA' \in CalculateDistance(setB, setA, bandwidth,
                                    lattice_vectors, emd_fails)
    /\ UNCHANGED <<lattice_vectors, cell_area, setA, setB, bandwidth, emd_fails,
                   callAB>>

\* no pad_periodic_image call is part of this specification
PadIdle ==
    /\ positions = <<>>
    /\ cell = <<>>
    /\ n_a1 = 0
    /\ n_a2 = 0
    /\ pad_pc = "idle"
    /\ offsets = <<>>
    /\ pad_steps = <<>>
    /\ pad_ret = "pending"
    /\ padded_pos = <<>>
    /\ pad_log = <<>>

DistNext ==
    \/ CallAB /\ UNCHANGED <<padVars, interpVars, pvcVars, ccVars,
            callsVars, batchVars, corruptVars,
            processVars, cellVars>>
    \/ CallBA /\ UNCHANGED <<padVars, interpVars, pvcVars, ccVars,
            callsVars, batchVars, corruptVars,
            processVars, cellVars>>

InitDist ==
    DistInit /\ PadIdle /\ InterpIdle /\ PvcIdle /\ CcIdle /\ CallsIdle
      /\ BatchIdle /\ CorruptIdle /\ ProcessIdle
      /\ CellIdle

SpecDist == InitDist /\ [][DistNext]_vars

----------------------------------------------------------------------------
(* Claims about calculate_distance *)

\* the calls of this behaviour that have ended, with their two point sets
EndedCalls ==
    {c \in {[call |-> callAB, p1 |-> setA, p2 |-> setB],
            [call |-> callBA, p1 |-> setB, p2 |-> setA]} :
        c.call.status \in {"raised", "returned"}}

ReturnedCalls == {c \in EndedCalls : c.call.status = "returned"}

\* the norms of pA - pB + i*a1 + j*a2 over i, j in [-2, 2]
ImageNorms(pA, pB) ==
    {Norm(<<pA[1] - pB[1] + i * lattice_vectors[1][1] + j * lattice_vectors[2][1],
            pA[2] - pB[2] + i * lattice_vectors[1][2] + j * lattice_vectors[2][2]>>) :
        i \in -2..2, j \in -2..2}

\* C2: every cost matrix entry is the minimum over the 25 offsets
\* i*a1 + j*a2, i, j in [-2, 2], of the norm of pA - pB + offset, and two
\* points separated by exactly the lattice vector a1 have cost 0.
C2_CostIsPeriodicMinimum ==
    \A c \in ReturnedCalls :
        \A a \in 1..Len(c.p1) : \A b \in 1..Len(c.p2) :
            LET entry == c.call.cost_matrix[a][b]
                norms == ImageNorms(c.p1[a], c.p2[b])
            IN  /\ entry \in norms
                /\ \A n \in norms : entry <= n
                /\ (\/ c.p1[a] = VecAdd(c.p2[b], lattice_vectors[1])
                    \/ c.p2[b] = VecAdd(c.p1[a], lattice_vectors[1]))
                      => entry = 0

\* C2 witness: a returned call on the oblique lattice whose sets hold two
\* points one lattice vector a1 apart, and a pair of points at cost > 0
C2_Witness ==
    /\ callAB.status = "returned"
    /\ lattice_vectors = ObliqueLattice
    /\ \E a \in 1..Len(setA) : \E b \in 1..Len(setB) :
          /\ setA[a] = VecAdd(setB[b], lattice_vectors[1])
          /\ callAB.cost_matrix[a][b] = 0
    /\ \E a \in 1..Len(setA) : \E b \in 1..Len(setB) :
          callAB.cost_matrix[a][b] > 0

\* equality of two rationals
RatEq(x, y) == x.num * y.den = y.num * x.den

Transpose(M, n, m) == [j \in 1..m |-> [i \in 1..n |-> M[i][j]]]

\* the transposed plan, as a rational matrix
TransposePlan(t, n, m) == [num |-> Transpose(t.num, n, m), den |-> t.den]

BothReturned == callAB.status = "returned" /\ callBA.status = "returned"

SameBandwidth == Len(setA) = Len(setB) \/ ~bandwidth.none

IsDiagonal(t) ==
    \A i \in DOMAIN t.num : \A j \in DOMAIN t.num[i] :
        i # j => t.num[i][j] = 0

\* C4 as stated: for every valid set S, calculate_distance(S, S) returns
\* distance 0 for both variants and both plans are diagonal.
C4_IdenticalSetsAsStated ==
    (callAB.status = "returned" /\ setA = setB) =>
        /\ callAB.distance.num = 0
        /\ callAB.distance_uniform.num = 0
        /\ IsDiagonal(callAB.transport_matrix)
        /\ IsDiagonal(callAB.transport_matrix_uniform)

\* no two different points of S are at periodic distance 0
PeriodicallyDistinct(cost) ==
    \A i \in DOMAIN cost : \A j \in DOMAIN cost[i] : i # j => cost[i][j] > 0

\* C4 amended: for every valid set S, calculate_distance(S, S) returns
\* distance 0 for both variants; both plans are diagonal when no two
\* different points of S are at periodic distance 0 (no repeated point and
\* no two points a lattice translation apart).
C4_IdenticalSets ==
    (callAB.status = "returned" /\ setA = setB) =>
        /\ callAB.distance.num = 0
        /\ callAB.distance_uniform.num = 0
        /\ PeriodicallyDistinct(callAB.cost_matrix) =>
              /\ IsDiagonal(callAB.transport_matrix)
              /\ IsDiagonal(callAB.transport_matrix_uniform)

\* C4 witness: a returned call on S = T of two periodically distinct points,
\* whose plan matches each point with itself
C4_Witness ==
    /\ callAB.status = "returned"
    /\ setA = setB
    /\ Len(setA) = 2
    /\ PeriodicallyDistinct(callAB.cost_matrix)
    /\ \A i \in 1..2 : callAB.transport_matrix.num[i][i] > 0

\* row sums and column sums of plan t equal the distributions a and b
HasMarginals(t, a, b) ==
    /\ \A i \in 1..Len(a.num) :
          SumSeq(t.num[i]) * a.den = a.num[i] * t.den
    /\ \A j \in 1..Len(b.num) :
          SumSeq([i \in 1..Len(a.num) |-> t.num[i][j]]) * b.den
              = b.num[j] * t.den

\* t is an n x m matrix of nonnegative entries
IsPlan(t, n, m) ==
    /\ Len(t.num) = n
    /\ \A i \in 1..n : Len(t.num[i]) = m
    /\ \A i \in 1..n : \A j \in 1..m : t.num[i][j] >= 0
    /\ t.den > 0

\* v is a probability distribution over n points
IsDistribution(v, n) ==
    /\ Len(v.num) = n
    /\ \A i \in 1..n : v.num[i] >= 0
    /\ SumSeq(v.num) = v.den /\ v.den > 0

\* C5: each returned plan is an |A| x |B| matrix of nonnegative entries
\* whose row sums are the source distribution and whose column sums are the
\* target distribution (the normalized densities for the density-weighted
\* plan, 1/|A| and 1/|B| for the uniform plan), and the distances are >= 0.
C5_PlanMarginals ==
    \A c \in ReturnedCalls :
        LET r == c.call
            n == Len(c.p1)
            m == Len(c.p2)
        IN  /\ IsDistribution(r.density1_norm, n)
            /\ IsDistribution(r.density2_norm, m)
            /\ IsPlan(r.transport_matrix, n, m)
            /\ IsPlan(r.transport_matrix_uniform, n, m)
            /\ HasMarginals(r.transport_matrix,
                            r.density1_norm, r.density2_norm)
            /\ HasMarginals(r.transport_matrix_uniform,
                            [num |-> [i \in 1..n |-> 1], den |-> n],
                            [num |-> [j \in 1..m |-> 1], den |-> m])
            /\ r.distance.num >= 0 /\ r.distance.den > 0
            /\ r.distance_uniform.num >= 0 /\ r.distance_uniform.den > 0

\* C5 witness: a returned call on sets of 1 and 3 points whose densities
\* are not uniform
C5_Witness ==
    /\ callAB.status = "returned"
    /\ Len(setA) = 1 /\ Len(setB) = 3
    /\ callAB.density2_norm.num[1] # callAB.density2_norm.num[3]
    /\ callAB.distance.num > 0

\* all statements of a call that returns
AllSteps == <<"validate", "bandwidth", "density", "normalize", "uniform",
              "cost", "emd", "distance">>

\* the call returned none of the four values
NoValues(r) ==
    /\ r.transport_matrix = NoVec /\ r.transport_matrix_uniform = NoVec
    /\ r.distance = NoVec /\ r.distance_uniform = NoVec

\* the set is empty or not 2-dimensional
BadSet(p) == Len(p) = 0 \/ Len(p[1]) # 2

\* some lattice entry is non-finite
LatticeNonFinite ==
    \E r \in 1..2 : \E k \in 1..2 : lattice_vectors[r][k] = NF

\* the bandwidth a call with first set p1 uses is 0
BandwidthZero(p1) == bandwidth.none /\ Norm2(lattice_vectors[1]) = 0

\* C8: a call ends either returning all four values after every step, or
\* raising with no value returned; an empty or non-2-dimensional set is
\* rejected before any density, cost-matrix or solver step; a failing
\* density estimation, a non-finite periodic difference and a failing
\* solver each end the call in the raise.
C8_FailuresAreFatal ==
    \A c \in EndedCalls :
        LET r == c.call
            bad == BadSet(c.p1) \/ BadSet(c.p2)
            last == r.steps[Len(r.steps)]
        IN  /\ r.status = "returned" => (r.steps = AllSteps /\ ~NoValues(r))
            /\ r.status = "raised" =>
                  /\ NoValues(r)
                  /\ r.log[Len(r.log)] = "Error calculating Wasserstein distance"
            /\ bad => (r.status = "raised" /\ r.steps = <<"validate">>)
            /\ (~bad /\ BandwidthZero(c.p1)) =>
                  (r.status = "raised" /\ last = "density")
            /\ (~bad /\ ~BandwidthZero(c.p1) /\ LatticeNonFinite) =>
                  (r.status = "raised" /\ last = "cost")
            /\ (~bad /\ ~BandwidthZero(c.p1) /\ ~LatticeNonFinite /\ emd_fails) =>
                  (r.status = "raised" /\ last = "emd")

\* C8 witness: a call that raised in the solver step
C8_Witness ==
    /\ callAB.status = "raised"
    /\ callAB.steps[Len(callAB.steps)] = "emd"
    /\ Len(setA) = 2 /\ Len(setB) = 2

----------------------------------------------------------------------------
(* VoronoiAnalyzer.interpolate_displacements and its helpers.  Indices of  *)
(* points and of simplices are TLA+ indices (python index + 1).  The       *)
(* values produced by scipy's RBFInterpolator are not computed: a warped   *)
(* or mapped point is a record naming what it was computed from.           *)

\* largest number of query points of one call
MaxQueryPts == 3

\* the denominator d of _calculate_circumcenter
CircumcenterD(a, b, c) ==
    2 * (a[1] * (b[2] - c[2]) + b[1] * (c[2] - a[2]) + c[1] * (a[2] - b[2]))

\* epsilon = 1e-10
EpsilonExponent == 10

RECURSIVE Pow10(_)
Pow10(n) == IF n <= 0 THEN 1 ELSE 10 * Pow10(n - 1)

\* (variant of BelowEpsilon that never takes the degenerate branch)
BelowEpsilonNever(d, e) == FALSE

\* abs(d) < epsilon, for d computed from integer coordinates that are in
\* units of 10^-e: the float d is d * 10^(-2e)
BelowEpsilon(d, e) ==
    IF 2 * e >= EpsilonExponent
      THEN (IF d < 0 THEN -d ELSE d) < Pow10(2 * e - EpsilonExponent)
      ELSE d = 0

\* _calculate_circumcenter for coordinates in units of 10^-e: the point
\* num / den in the same units; the centroid when abs(d) < epsilon
CalculateCircumcenterIn(triangle, e) ==
    LET a == triangle[1]
        b == triangle[2]
        c == triangle[3]
        d == CircumcenterD(a, b, c)
        a2 == a[1] * a[1] + a[2] * a[2]
        b2 == b[1] * b[1] + b[2] * b[2]
        c2 == c[1] * c[1] + c[2] * c[2]
    IN  IF BelowEpsilon(d, e)
          THEN [num |-> VecAdd(VecAdd(a, b), c), den |-> 3]
          ELSE [num |-> <<a2 * (b[2] - c[2]) + b2 * (c[2] - a[2])
                            + c2 * (a[2] - b[2]),
                          a2 * (c[1] - b[1]) + b2 * (a[1] - c[1])
                            + c2 * (b[1] - a[1])>>,
                den |-> d]

\* _calculate_circumcenter on coordinates in units of 1: abs(d) < 1e-10 is
\* d = 0
CalculateCircumcenter(triangle) == CalculateCircumcenterIn(triangle, 0)

\* squared distance of the point p to the rational point cc, times cc.den^2
Dist2Scaled(p, cc) ==
    (p[1] * cc.den - cc.num[1]) * (p[1] * cc.den - cc.num[1])
      + (p[2] * cc.den - cc.num[2]) * (p[2] * cc.den - cc.num[2])

\* scipy.spatial.Delaunay keeps one input index for every distinct location
\* (the other copies are not vertices of any simplex); which copy it keeps
\* is not specified
DelaunayVertexSets(points) ==
    {R \in SUBSET (1..Len(points)) :
        \A i \in 1..Len(points) :
            Cardinality({r \in R : points[r] = points[i]}) = 1}

\* the triangles on the vertices R with an empty circumcircle (the inputs
\* tried have no four cocircular points, so these triangles do not overlap)
DelaunayTriples(points, R) ==
    {t \in R \X R \X R :
        /\ t[1] < t[2] /\ t[2] < t[3]
        /\ CircumcenterD(points[t[1]], points[t[2]], points[t[3]]) # 0
        /\ LET cc == CalculateCircumcenter(
                         <<points[t[1]], points[t[2]], points[t[3]]>>)
           IN  \A l \in R \ {t[1], t[2], t[3]} :
                   Dist2Scaled(points[l], cc) >= Dist2Scaled(points[t[1]], cc)}

TripleLess(s, t) ==
    \/ s[1] < t[1]
    \/ s[1] = t[1] /\ s[2] < t[2]
    \/ s[1] = t[1] /\ s[2] = t[2] /\ s[3] < t[3]

\* the rows of tri.simplices; their order only names the simplices
RECURSIVE SortTriples(_)
SortTriples(S) ==
    IF S = {}
      THEN <<>>
      ELSE LET m == CHOOSE t \in S : \A u \in S \ {t} : TripleLess(t, u)
           IN  <<m>> \o SortTriples(S \ {m})

\* Delaunay(points): the possible results.  It raises (QhullError) when the
\* points span no triangle.
Delaunay(points) ==
    {IF DelaunayTriples(points, R) = {}
       THEN [raised |-> TRUE, simplices |-> <<>>]
       ELSE [raised |-> FALSE,
             simplices |-> SortTriples(DelaunayTriples(points, R))] :
     R \in DelaunayVertexSets(points)}

\* (variant of RbfRaises that accepts y and d of different lengths)
RbfRaisesIgnoringCounts(n_y, n_d, singular) == n_y < 3 \/ singular

\* RBFInterpolator(y, d, kernel='thin_plate_spline'): it raises when y and
\* d differ in their number of rows or y has fewer than the 3 rows that the
\* degree-1 polynomial needs; it can also raise on a singular system
RbfRaises(n_y, n_d, singular) == n_y # n_d \/ n_y < 3 \/ singular

(* _find_voronoi_cell.  The order that np.argsort(angles) gives to         *)
(* cell_indices depends on the circumcenter values and is not computed:    *)
(* the indices are listed in ascending order.                              *)
Dist2(p, q) == SumSeq([k \in 1..Len(p) |-> (p[k] - q[k]) * (p[k] - q[k])])

\* np.argmin: the first index of a smallest entry
ArgMin(d) ==
    CHOOSE i \in 1..Len(d) :
        /\ \A j \in 1..Len(d) : d[i] <= d[j]
        /\ \A j \in 1..(i - 1) : d[j] > d[i]

\* (variant of FindVoronoiCell that looks the nearest point up in the
\* triangulation of relaxed_points)
FindVoronoiCellInRelaxed(query_point, points, simplices) ==
    LET distances == [k \in 1..Len(points) |-> Dist2(points[k], query_point)]
        nearest_point_index == ArgMin(distances)
        simplices_containing_point ==
            SelectSeq([k \in 1..Len(tri_relaxed.simplices) |-> k],
                      LAMBDA k : \E v \in 1..3 :
                          tri_relaxed.simplices[k][v] = nearest_point_index)
    IN  [none |-> Len(simplices_containing_point) = 0,
         cell_indices |-> simplices_containing_point,
         nearest_point_index |-> nearest_point_index]

FindVoronoiCell(query_point, points, simplices) ==
    LET distances == [k \in 1..Len(points) |-> Dist2(points[k], query_point)]
        nearest_point_index == ArgMin(distances)
        simplices_containing_point ==
            SelectSeq([k \in 1..Len(simplices) |-> k],
                      LAMBDA k : \E v \in 1..3 :
                                    simplices[k][v] = nearest_point_index)
    IN  IF Len(simplices_containing_point) = 0
          THEN [none |-> TRUE, cell_indices |-> <<>>,
                nearest_point_index |-> nearest_point_index]
          ELSE [none |-> FALSE, cell_indices |-> simplices_containing_point,
                nearest_point_index |-> nearest_point_index]

\* _map_to_cell returns None: the centering and cdist need target vertices
\* with 2 columns; linear_sum_assignment matches min(rows) vertices, and the
\* RBFInterpolator is fitted on the original and the matched vertices
MapToCellFails(n_original, n_target, target_columns, singular) ==
    \/ target_columns # 2
    \/ RbfRaises(n_original,
                 IF n_original <= n_target THEN n_original ELSE n_target,
                 singular)

\* the two input checks at the head of interpolate_displacements
InterpInvalid(relaxed, unrelaxed, query, pristine) ==
    \/ \E arr \in {relaxed, unrelaxed, query, pristine} : Size(arr) = 0
    \/ \E arr \in {relaxed, unrelaxed, query} : Shape(arr)[2] # 2

\* the call returns None after logging msg; nothing else is assigned
InterpFails(steps, msg) ==
    /\ interp_steps' = steps
    /\ interp_log' = Append(interp_log, msg)
    /\ interp_ret' = "None"
    /\ interp_pc' = "returned"

\* the circumcenters of the simplices of a triangulation of points
Circumcenters(points, simplices) ==
    [k \in 1..Len(simplices) |->
        CalculateCircumcenter(<<points[simplices[k][1]],
                                points[simplices[k][2]],
                                points[simplices[k][3]]>>)]

\* rbf_interpolator(circumcenters_unrelaxed): one warped point per row
WarpCircumcenters(circumcenters) ==
    [k \in 1..Len(circumcenters) |-> [warped |-> circumcenters[k]]]

\* RBFInterpolator is a deterministic function of its data: a fit that was
\* made before (known is not "unknown") ends as it ended then
RbfOutcomes(known) ==
    IF known = "unknown" THEN BOOLEAN ELSE {known = "singular"}

\* the body of interpolate_displacements up to the loop over the query
\* points: validation, both triangulations, circumcenters, global warp
InterpCall ==
    /\ interp_pc = "call"
    /\ IF InterpInvalid(relaxed_points, unrelaxed_points, query_points,
                        pristine_cell)
         THEN /\ InterpFails(<<"validate">>,
                             "Error interpolating displacements")
              /\ UNCHANGED <<tri_relaxed, tri_unrelaxed,
                             circumcenters_unrelaxed, circumcenters_rbf,
                             rbf_global>>
         ELSE \E tr \in Delaunay(relaxed_points),
                 tu \in Delaunay(unrelaxed_points),
                 singular \in RbfOutcomes(rbf_global) :
                LET failed_at ==
                        IF tr.raised \/ tu.raised THEN "delaunay"
                        ELSE IF RbfRaises(Len(unrelaxed_points),
                                          Len(relaxed_points), singular)
                               THEN "rbf"
                               ELSE "none"
                    ccs == Circumcenters(unrelaxed_points, tu.simplices)
                IN  /\ rbf_global' =
                           IF tr.raised \/ tu.raised THEN rbf_global
                           ELSE IF singular THEN "singular" ELSE "regular"
                    /\ tri_relaxed' = tr
                    /\ tri_unrelaxed' =
                           IF tr.raised THEN tri_unrelaxed ELSE tu
                    /\ circumcenters_unrelaxed' =
                           IF failed_at = "delaunay"
                             THEN circumcenters_unrelaxed ELSE ccs
                    /\ circumcenters_rbf' =
                           IF failed_at = "none"
                             THEN WarpCircumcenters(ccs)
                             ELSE circumcenters_rbf
                    /\ CASE failed_at = "delaunay" ->
                              InterpFails(<<"validate", "delaunay">>,
                                  "Error creating Delaunay triangulation")
                         [] failed_at = "rbf" ->
                              InterpFails(<<"validate", "delaunay",
                                            "circumcenters", "rbf">>,
                                  "Error interpolating circumcenters")
                         [] OTHER ->
                              /\ interp_steps' =
                                     <<"validate", "delaunay",
                                       "circumcenters", "rbf", "loop">>
                              /\ interp_pc' = "loop"
                              /\ UNCHANGED <<interp_log, interp_ret>>
    /\ UNCHANGED <<relaxed_points, unrelaxed_points, query_points,
                   pristine_cell, q_done, interp_trace,
                   interpolated_pristine, interpolated_unrelaxed, rbf_fault>>

\* how the processing of one query point ended without a result
Skipped(at, log) ==
    [outcome |-> at, log |-> log, pristine_point |-> <<>>,
     unrelaxed_point |-> <<>>]

\* (variant of MappedPoint in which the result for a query point is shifted
\* by the number of points interpolated before it)
MappedPointAfterOthers(frame, query_point, nearest_idx) ==
    [frame |-> frame, query |-> query_point,
     nearest |-> nearest_idx + Len(interpolated_pristine)]

\* the point that _map_to_cell returns for the warped query point
MappedPoint(frame, query_point, nearest_idx) ==
    [frame |-> frame, query |-> query_point, nearest |-> nearest_idx]

\* the try block of the loop body for one query point.  fault names the
\* RBFInterpolator fit that meets a singular system ("none": no fit does).
ProcessQueryPoint(query_point, fault) ==
    LET found == FindVoronoiCell(query_point, relaxed_points,
                                 tri_unrelaxed.simplices)
        nearest_idx == found.nearest_point_index
        n_vertices == 1 + Len(found.cell_indices)
        again == FindVoronoiCell(unrelaxed_points[nearest_idx],
                                 unrelaxed_points, tri_unrelaxed.simplices)
    IN  IF found.none
          THEN Skipped("find_cell", <<"Error finding Voronoi cell",
                                      "Error processing query point">>)
        ELSE IF RbfRaises(n_vertices, n_vertices, fault = "warp")
          THEN Skipped("warp", <<"Error processing query point">>)
        ELSE IF MapToCellFails(n_vertices, Len(pristine_cell) + 1,
                               Shape(pristine_cell)[2],
                               fault = "map_pristine")
          THEN Skipped("map_pristine", <<"Error mapping points to cell",
                                         "Error processing query point">>)
        ELSE IF again.none
          THEN Skipped("find_unrelaxed_cell",
                       <<"Error finding Voronoi cell",
                         "Error processing query point">>)
        ELSE IF MapToCellFails(n_vertices, 1 + Len(again.cell_indices), 2,
                               fault = "map_unrelaxed")
          THEN Skipped("map_unrelaxed", <<"Error mapping points to cell",
                                          "Error processing query point">>)
        ELSE [outcome |-> "ok", log |-> <<>>,
              pristine_point |->
                  <<MappedPoint("pristine", query_point, nearest_idx)>>,
              unrelaxed_point |->
                  <<MappedPoint("unrelaxed", query_point, nearest_idx)>>]

\* the site whose cell a query point is processed in (nearest_idx)
NearestSite(query_point) ==
    FindVoronoiCell(query_point, relaxed_points,
                    tri_unrelaxed.simplices).nearest_point_index

\* The three fits of an iteration take their data from the site's cell
\* alone, so the first of them that meets a singular system ("none": no fit
\* that is reached does) is the same for every query point of a site.
FitFaults(site) ==
    IF rbf_fault[site] = "unknown"
      THEN {"none", "warp", "map_pristine", "map_unrelaxed"}
      ELSE {rbf_fault[site]}

\* (variant of NextIteration that leaves the loop at the first failure)
NextIterationBreaks(outcome, k, n) == IF outcome = "ok" THEN k + 1 ELSE n

\* the for statement after an iteration ended, normally or by `continue`:
\* k of the n query points are done
NextIteration(outcome, k, n) == k + 1

\* one iteration of the loop over query_points
InterpQueryPoint ==
    /\ interp_pc = "loop"
    /\ q_done < Len(query_points)
    /\ \E fault \in FitFaults(NearestSite(query_points[q_done + 1])) :
          LET r == ProcessQueryPoint(query_points[q_done + 1], fault)
          IN  /\ rbf_fault' =
                     [rbf_fault EXCEPT
                        ![NearestSite(query_points[q_done + 1])] =
                            IF r.outcome = fault THEN fault ELSE "none"]
              /\ interpolated_pristine' =
                     interpolated_pristine \o r.pristine_point
              /\ interpolated_unrelaxed' =
                     interpolated_unrelaxed \o r.unrelaxed_point
              /\ interp_log' = interp_log \o r.log
              /\ interp_trace' =
                     Append(interp_trace,
                            [index |-> q_done + 1, outcome |-> r.outcome])
              /\ q_done' = NextIteration(r.outcome, q_done,
                                         Len(query_points))
    /\ UNCHANGED <<relaxed_points, unrelaxed_points, query_points,
                   pristine_cell, interp_pc, interp_steps, interp_ret,
                   tri_relaxed, tri_unrelaxed, circumcenters_unrelaxed,
                   circumcenters_rbf, rbf_global>>

\* (variant of NoneSucceeded that never reports an empty result)
NoneSucceededNever(pristine, unrelaxed) == FALSE

\* `not interpolated_pristine or not interpolated_unrelaxed`
NoneSucceeded(pristine, unrelaxed) == Len(pristine) = 0 \/ Len(unrelaxed) = 0

\* the statements after the loop: None if nothing was interpolated, else
\* the tuple (np.array(interpolated_pristine),
\* np.array(interpolated_unrelaxed), circumcenters_unrelaxed,
\* circumcenters_rbf)
InterpReturn ==
    /\ interp_pc = "loop"
    /\ q_done >= Len(query_points)
    /\ interp_pc' = "returned"
    /\ IF NoneSucceeded(interpolated_pristine, interpolated_unrelaxed)
         THEN /\ interp_log' =
                     Append(interp_log,
                            "No points were successfully interpolated")
              /\ interp_ret' = "None"
         ELSE /\ interp_ret' = "tuple"
              /\ UNCHANGED interp_log
    /\ UNCHANGED <<relaxed_points, unrelaxed_points, query_points,
                   pristine_cell, interp_steps, tri_relaxed, tri_unrelaxed,
                   circumcenters_unrelaxed, circumcenters_rbf, q_done,
                   interp_trace, interpolated_pristine,
                   interpolated_unrelaxed, rbf_global, rbf_fault>>

(* The inputs tried *)
\* four sites, no four of them cocircular: the triangles (1,2,3), (2,3,4)
InterpKite == <<<<0, 0>>, <<4, 0>>, <<0, 4>>, <<5, 5>>>>
\* the same sites with the second one displaced
InterpKiteRelaxed == <<<<0, 0>>, <<4, 1>>, <<0, 4>>, <<5, 5>>>>
\* the sites of InterpKite with the site (4, 0) listed twice
InterpKiteDup == <<<<4, 0>>, <<0, 0>>, <<4, 0>>, <<0, 4>>, <<5, 5>>>>
InterpKiteDupRelaxed == <<<<3, 0>>, <<0, 0>>, <<4, 1>>, <<0, 4>>, <<5, 5>>>>
\* collinear sites
InterpLine == <<<<0, 0>>, <<2, 0>>, <<4, 0>>, <<6, 0>>>>
\* an array with three columns
InterpThreeColumns == <<<<0, 0, 0>>, <<4, 0, 0>>, <<0, 4, 0>>, <<5, 5, 0>>>>

\* the pairs (relaxed_points, unrelaxed_points)
InterpPointPairs ==
    {<<InterpKiteRelaxed, InterpKite>>,
     <<InterpKite, InterpKite>>,
     <<InterpKiteDupRelaxed, InterpKiteDup>>,
     <<InterpKite, InterpKiteDup>>,
     <<InterpLine, InterpLine>>,
     <<InterpLine, InterpKite>>,
     <<InterpKite, InterpLine>>,
     <<<<>>, InterpKite>>,
     <<InterpKite, <<>>>>,
     <<InterpThreeColumns, InterpKite>>,
     <<InterpKite, InterpThreeColumns>>}

InterpQueryGrid == {<<4, 1>>, <<1, 0>>}

InterpQuerySets ==
    UNION {[1..n -> InterpQueryGrid] : n \in 1..MaxQueryPts}
      \cup {<<>>, <<<<4, 1, 0>>>>}

\* a square cell, a cell of one vertex, an empty cell, a cell whose
\* vertices have three coordinates
InterpCells ==
    {<<<<1, 1>>, <<-1, 1>>, <<-1, -1>>, <<1, -1>>>>,
     <<<<1, 1>>>>,
     <<>>,
     <<<<1, 1, 0>>, <<-1, 1, 0>>, <<-1, -1, 0>>, <<1, -1, 0>>>>}

InterpInit ==
    /\ \E p \in InterpPointPairs :
          relaxed_points = p[1] /\ unrelaxed_points = p[2]
    /\ query_points \in InterpQuerySets
    /\ pristine_cell \in InterpCells
    /\ interp_pc = "call"
    /\ InterpLocalsInit
    /\ rbf_global = "unknown"
    /\ rbf_fault = [site \in 1..Len(relaxed_points) |-> "unknown"]

InterpNext ==
    \/ InterpCall /\ UNCHANGED <<padVars, distVars, pvcVars, ccVars,
            callsVars, batchVars, corruptVars,
            processVars, cellVars>>
    \/ InterpQueryPoint /\ UNCHANGED <<padVars, distVars, pvcVars, ccVars,
            callsVars, batchVars, corruptVars,
            processVars, cellVars>>
    \/ InterpReturn /\ UNCHANGED <<padVars, distVars, pvcVars, ccVars,
            callsVars, batchVars, corruptVars,
            processVars, cellVars>>

InitInterp ==
    InterpInit /\ PadIdle /\ DistIdle /\ PvcIdle /\ CcIdle /\ CallsIdle
      /\ BatchIdle /\ CorruptIdle /\ ProcessIdle
      /\ CellIdle

SpecInterp == InitInterp /\ [][InterpNext]_vars

----------------------------------------------------------------------------
(* Claims about interpolate_displacements *)

\* the loop over the query points was entered
SetupSucceeded ==
    Len(interp_steps) > 0 /\ interp_steps[Len(interp_steps)] = "loop"

\* the iterations that ended without an exception, in the order they ran
Successes == SelectSeq(interp_trace, LAMBDA e : e.outcome = "ok")

\* the list holds one point per successful iteration, computed from that
\* iteration's query point, in the order of the iterations
ListsTheSuccesses(list) ==
    /\ Len(list) = Len(Successes)
    /\ \A j \in 1..Len(list) :
           list[j].query = query_points[Successes[j].index]

\* C6: once the loop over the query points is entered, the iterations
\* visit the query points one by one in input order; a point whose
\* processing fails at any sub-step (cell lookup, local warp, mapping to
\* the pristine cell, second cell lookup, mapping to the unrelaxed cell)
\* adds nothing to either output list, and when the call returns every
\* query point has been visited, those after a failed point too.
C6_FailureSkipsOnlyThatPoint ==
    SetupSucceeded =>
        /\ \A k \in 1..Len(interp_trace) : interp_trace[k].index = k
        /\ ListsTheSuccesses(interpolated_pristine)
        /\ ListsTheSuccesses(interpolated_unrelaxed)
        /\ interp_pc = "returned" =>
               Len(interp_trace) = Len(query_points)

\* a returned call in which a point failed and a later point succeeded
C6_Witness ==
    /\ interp_pc = "returned"
    /\ \E i \in 1..Len(interp_trace) :
          /\ interp_trace[i].outcome # "ok"
          /\ \E j \in (i + 1)..Len(interp_trace) :
                interp_trace[j].outcome = "ok"

\* the call returned None after logging that no point was interpolated
NothingInterpolated ==
    /\ interp_ret = "None"
    /\ Len(interp_log) > 0
    /\ interp_log[Len(interp_log)] = "No points were successfully interpolated"

\* C7: a returned call ended with the "no points were successfully
\* interpolated" failure exactly when the setup succeeded and no query
\* point was processed successfully; when the setup succeeded and some
\* point was, the call returns the tuple, and its pristine-frame and
\* unrelaxed-frame arrays hold one row per successful query point, in
\* input order.
C7_FailsIffNoPointSucceeded ==
    interp_pc = "returned" =>
        /\ NothingInterpolated <=> (SetupSucceeded /\ Len(Successes) = 0)
        /\ (SetupSucceeded /\ Len(Successes) > 0) =>
               /\ interp_ret = "tuple"
               /\ ListsTheSuccesses(interpolated_pristine)
               /\ ListsTheSuccesses(interpolated_unrelaxed)
               /\ Len(interpolated_pristine) = Len(interpolated_unrelaxed)

\* a call with several query points, all of which failed
C7_Witness ==
    /\ interp_pc = "returned"
    /\ NothingInterpolated
    /\ Len(query_points) >= 2
    /\ Len(interp_trace) = Len(query_points)

\* the array is empty or its rows do not have two coordinates
NotTwoDimensional(arr) == Size(arr) = 0 \/ Shape(arr)[2] # 2

\* C9 (as stated): whenever one of relaxed_points, unrelaxed_points,
\* query_points, pristine_cell is empty or not 2-dimensional, the call
\* fails at the validation, before any triangulation or warp is built.
C9_ValidatesAllFour ==
    (/\ interp_pc \in {"loop", "returned"}
     /\ \E arr \in {relaxed_points, unrelaxed_points, query_points,
                    pristine_cell} : NotTwoDimensional(arr))
        => /\ interp_steps = <<"validate">>
           /\ interp_ret = "None"
           /\ tri_relaxed.simplices = <<>>
           /\ tri_unrelaxed.simplices = <<>>
           /\ circumcenters_rbf = <<>>

\* the simplices of a triangulation that have the point index as a vertex
SimplicesAt(tri, site) ==
    {k \in 1..Len(tri.simplices) :
        \E v \in 1..3 : tri.simplices[k][v] = site}

\* C29: the cell of a query point is made of the simplices of the
\* triangulation of unrelaxed_points that contain the index of the relaxed
\* point nearest to it (a point with no such simplex is skipped, one with a
\* single such simplex has too few vertices for the local warp); the
\* triangulation of relaxed_points decides nothing of this, yet when it
\* cannot be built the call returns None before any query point is
\* processed.
C29_CellFromUnrelaxedTriangulation ==
    /\ tri_relaxed.raised =>
          /\ interp_pc = "returned"
          /\ interp_ret = "None"
          /\ interp_steps = <<"validate", "delaunay">>
          /\ q_done = 0
          /\ interp_trace = <<>>
    /\ \A k \in 1..Len(interp_trace) :
          LET query_point == query_points[interp_trace[k].index]
              distances == [i \in 1..Len(relaxed_points) |->
                               Dist2(relaxed_points[i], query_point)]
              incident == SimplicesAt(tri_unrelaxed, ArgMin(distances))
          IN  /\ interp_trace[k].outcome = "find_cell" <=> incident = {}
              /\ Cardinality(incident) = 1 =>
                    interp_trace[k].outcome = "warp"

\* a query point was skipped for want of a cell although the triangulation
\* of relaxed_points has simplices at the relaxed point nearest to it
C29_Witness ==
    \E k \in 1..Len(interp_trace) :
        /\ interp_trace[k].outcome = "find_cell"
        /\ SimplicesAt(tri_relaxed,
                       NearestSite(query_points[interp_trace[k].index])) # {}

\* relaxed_points and unrelaxed_points have different numbers of rows
CountsDiffer == Len(relaxed_points) # Len(unrelaxed_points)

\* no query point was processed
NoQueryPointProcessed ==
    /\ q_done = 0
    /\ interp_trace = <<>>
    /\ interpolated_pristine = <<>>
    /\ interpolated_unrelaxed = <<>>

\* every query point processed had a nearest index that is a row of
\* unrelaxed_points
IndexedInRange ==
    \A k \in 1..Len(interp_trace) :
        NearestSite(query_points[interp_trace[k].index])
            \in 1..Len(unrelaxed_points)

\* C30 (as stated): when the numbers of relaxed and unrelaxed points differ
\* the call returns None from the fit of the global warp, without
\* processing a query point, and unrelaxed_points is never indexed out of
\* range.
C30_CountMismatchFailsAtWarpFit ==
    /\ (interp_pc = "returned" /\ CountsDiffer) =>
          /\ interp_ret = "None"
          /\ interp_steps = <<"validate", "delaunay", "circumcenters", "rbf">>
          /\ interp_log = <<"Error interpolating circumcenters">>
          /\ NoQueryPointProcessed
    /\ IndexedInRange

\* C30 (amended): when the numbers differ the call returns None without
\* entering the loop over the query points: from the fit of the global warp
\* when the validation and both triangulations succeeded, from the step
\* that failed otherwise; and unrelaxed_points is never indexed out of
\* range.
C30_CountMismatchFailsBeforeLoop ==
    /\ (interp_pc # "call" /\ CountsDiffer) =>
          /\ interp_pc = "returned"
          /\ interp_ret = "None"
          /\ NoQueryPointProcessed
          /\ interp_steps \in
                 {<<"validate">>, <<"validate", "delaunay">>,
                  <<"validate", "delaunay", "circumcenters", "rbf">>}
          /\ (~InterpInvalid(relaxed_points, unrelaxed_points, query_points,
                             pristine_cell)
                /\ ~tri_relaxed.raised /\ tri_unrelaxed.simplices # <<>>) =>
                 /\ interp_steps =
                        <<"validate", "delaunay", "circumcenters", "rbf">>
                 /\ interp_log = <<"Error interpolating circumcenters">>
    /\ IndexedInRange

\* a call with four relaxed and five unrelaxed points failed at the fit of
\* the global warp
C30_Witness ==
    /\ interp_pc = "returned"
    /\ Len(relaxed_points) = 4 /\ Len(unrelaxed_points) = 5
    /\ interp_ret = "None"
    /\ interp_steps = <<"validate", "delaunay", "circumcenters", "rbf">>

----------------------------------------------------------------------------
(* VoronoiAnalyzer.get_primitive_voronoi_cell.  scipy.spatial.Voronoi is    *)
(* computed in exact arithmetic: a Voronoi vertex is the circumcenter of    *)
(* three sites whose circumcircle has no site strictly inside, and the      *)
(* region of a site is unbounded when the site lies on the convex hull.     *)

\* largest absolute value of a coordinate of a lattice vector
MaxLatticeCoord == 2

Abs(x) == IF x < 0 THEN -x ELSE x

\* the rational point num / den in lowest terms with a positive denominator
RatPoint(num, den) ==
    LET g == Gcd(Abs(den), GcdSeq([i \in 1..Len(num) |-> Abs(num[i])]))
        sg == IF den < 0 THEN -g ELSE g
    IN  [num |-> [i \in 1..Len(num) |-> num[i] \div sg], den |-> den \div sg]

\* (variant of GridCoefficients built from the coefficients 0, 1, 2)
GridCoefficientsFromZero ==
    [k \in 1..9 |-> <<(k - 1) % 3, (k - 1) \div 3>>]

\* x, y = np.meshgrid([-1, 0, 1], [-1, 0, 1]);
\* points = np.column_stack((x.ravel(), y.ravel()))
GridCoefficients ==
    [k \in 1..9 |-> <<((k - 1) % 3) - 1, ((k - 1) \div 3) - 1>>]

\* points @ lattice_vectors raises unless lattice_vectors has as many rows
\* as points has columns
MatMulRaises(points, lv) == Len(lv) # Len(points[1])

MatMul(points, lv) ==
    [k \in 1..Len(points) |->
        [c \in 1..Len(lv[1]) |->
            SumSeq([r \in 1..Len(lv) |-> points[k][r] * lv[r][c]])]]

\* cross product of q - p and r - p
Cross(p, q, r) ==
    (q[1] - p[1]) * (r[2] - p[2]) - (q[2] - p[2]) * (r[1] - p[1])

\* Voronoi(points) raises (QhullError) when the sites are not planar points
\* that span the plane
VoronoiRaises(points) ==
    \/ Len(points[1]) # 2
    \/ \A i, j, k \in 1..Len(points) :
           Cross(points[i], points[j], points[k]) = 0

\* the Voronoi vertices of the sites, each once
VoronoiVertexSet(points) ==
    {LET cc == CalculateCircumcenter(
                   <<points[t[1]], points[t[2]], points[t[3]]>>)
     IN  RatPoint(cc.num, cc.den) :
     t \in DelaunayTriples(points, 1..Len(points))}

\* the vertex v lies on the boundary of the region of the site p
OnRegion(points, p, v) ==
    \A l \in 1..Len(points) :
        Dist2Scaled(points[p], v) <= Dist2Scaled(points[l], v)

\* the site p lies on the convex hull of the sites
OnHull(points, p) ==
    \E q \in 1..Len(points) :
        /\ points[q] # points[p]
        /\ \/ \A l \in 1..Len(points) :
                  Cross(points[p], points[q], points[l]) >= 0
           \/ \A l \in 1..Len(points) :
                  Cross(points[p], points[q], points[l]) <= 0

\* the direction of v seen from the site p, scaled by v.den
Direction(p, v) == <<v.num[1] - p[1] * v.den, v.num[2] - p[2] * v.den>>

UpperHalf(d) == d[2] > 0 \/ (d[2] = 0 /\ d[1] > 0)

\* the direction d comes before e counterclockwise from the positive x axis
AngleLess(d, e) ==
    \/ UpperHalf(d) /\ ~UpperHalf(e)
    \/ /\ UpperHalf(d) = UpperHalf(e)
       /\ d[1] * e[2] - d[2] * e[1] > 0

\* the vertices of V in counterclockwise order around the site p
RECURSIVE AroundSite(_, _)
AroundSite(p, V) ==
    IF V = {}
      THEN <<>>
      ELSE LET m == CHOOSE v \in V :
                        \A u \in V \ {v} :
                            AngleLess(Direction(p, v), Direction(p, u))
           IN  <<m>> \o AroundSite(p, V \ {m})

\* u comes before v in the order that names the Voronoi vertices
RatLess(u, v) ==
    \/ u.num[1] * v.den < v.num[1] * u.den
    \/ /\ u.num[1] * v.den = v.num[1] * u.den
       /\ u.num[2] * v.den < v.num[2] * u.den

\* the rows of vor.vertices; their order only names the vertices
RECURSIVE SortRat(_)
SortRat(V) ==
    IF V = {}
      THEN <<>>
      ELSE LET m == CHOOSE v \in V : \A u \in V \ {v} : RatLess(v, u)
           IN  <<m>> \o SortRat(V \ {m})

IndexOf(seq, x) == CHOOSE i \in 1..Len(seq) : seq[i] = x

\* the entry of vor.regions for the site p: the indices of its vertices in
\* cyclic order, with the marker -1 when the region is unbounded
VoronoiRegion(points, p, vertices) ==
    LET V == {vertices[i] : i \in {j \in 1..Len(vertices) :
                                      OnRegion(points, p, vertices[j])}}
        around == AroundSite(points[p], V)
        indices == [k \in 1..Len(around) |-> IndexOf(vertices, around[k])]
    IN  IF OnHull(points, p) THEN <<-1>> \o indices ELSE indices

\* Voronoi(points): point_region[p] names the region of the site p
Voronoi(points) ==
    LET vertices == SortRat(VoronoiVertexSet(points))
    IN  [vertices |-> vertices,
         regions |-> [p \in 1..Len(points) |->
                         VoronoiRegion(points, p, vertices)],
         point_region |-> [p \in 1..Len(points) |-> p]]

\* (variant of CentralPointIndex that names the first grid point)
CornerPointIndex == 0 + 1

\* central_point_index = 4, the centre of the 3x3 grid (python index + 1)
CentralPointIndex == 4 + 1

\* the except clause of the static method: `self` is not a name there, so
\* evaluating self.logger raises NameError before anything is logged
PvcExceptHandler ==
    [ret |-> "raised", vertices |-> <<>>, exc |-> "NameError", log |-> <<>>]

\* the body of get_primitive_voronoi_cell
PrimitiveVoronoiCell(lv) ==
    IF MatMulRaises(GridCoefficients, lv) THEN PvcExceptHandler
    ELSE IF VoronoiRaises(MatMul(GridCoefficients, lv)) THEN PvcExceptHandler
    ELSE LET lattice_points == MatMul(GridCoefficients, lv)
             vor == Voronoi(lattice_points)
             central_region ==
                 vor.regions[vor.point_region[CentralPointIndex]]
         IN  IF \A k \in 1..Len(central_region) : central_region[k] # -1
               THEN [ret |-> "array",
                     vertices |-> [k \in 1..Len(central_region) |->
                                      vor.vertices[central_region[k]]],
                     exc |-> "none", log |-> <<>>]
               ELSE [ret |-> "None", vertices |-> <<>>, exc |-> "none",
                     log |-> <<>>]

GetPrimitiveVoronoiCell ==
    /\ pvc_pc = "call"
    /\ pvc_pc' = "ended"
    /\ \E r \in {PrimitiveVoronoiCell(pvc_lattice_vectors)} :
           /\ pvc_ret' = r.ret
           /\ pvc_vertices' = r.vertices
           /\ pvc_exc' = r.exc
           /\ pvc_log' = r.log
    /\ UNCHANGED pvc_lattice_vectors

\* the 2x2 integer lattices, and three arrays of another shape
PvcLattices ==
    {<<<<a, b>>, <<c, d>>>> :
        a \in -MaxLatticeCoord..MaxLatticeCoord,
        b \in -MaxLatticeCoord..MaxLatticeCoord,
        c \in -MaxLatticeCoord..MaxLatticeCoord,
        d \in -MaxLatticeCoord..MaxLatticeCoord}
      \cup {<<>>,
            <<<<1, 0>>, <<0, 1>>, <<1, 1>>>>,
            <<<<1, 0, 0>>, <<0, 1, 0>>>>}

PvcInit ==
    /\ pvc_lattice_vectors \in PvcLattices
    /\ pvc_pc = "call"
    /\ pvc_ret = "pending"
    /\ pvc_vertices = <<>>
    /\ pvc_exc = "none"
    /\ pvc_log = <<>>

PvcNext ==
    GetPrimitiveVoronoiCell
      /\ UNCHANGED <<padVars, distVars, interpVars, ccVars,
            callsVars, batchVars, corruptVars,
            processVars, cellVars>>

InitPvc ==
    PvcInit /\ PadIdle /\ DistIdle /\ InterpIdle /\ CcIdle /\ CallsIdle
      /\ BatchIdle /\ CorruptIdle /\ ProcessIdle
      /\ CellIdle

SpecPvc == InitPvc /\ [][PvcNext]_vars

----------------------------------------------------------------------------
(* Claims about get_primitive_voronoi_cell *)

\* the argument is a 2x2 array
PvcTwoByTwo ==
    /\ Len(pvc_lattice_vectors) = 2
    /\ \A r \in 1..2 : Len(pvc_lattice_vectors[r]) = 2

\* the lattice points i*a1 + j*a2 with i, j in {-1, 0, 1}
NineLatticePoints ==
    {VecAdd(VecScale(i, pvc_lattice_vectors[1]),
            VecScale(j, pvc_lattice_vectors[2])) :
        i \in {-1, 0, 1}, j \in {-1, 0, 1}}

\* the circle around the rational point v through the origin passes
\* through at least three points of L and has no point of L strictly inside
IsVertexOfOriginRegion(v, L) ==
    /\ \A l \in L : Dist2Scaled(<<0, 0>>, v) <= Dist2Scaled(l, v)
    /\ Cardinality({l \in L :
                       Dist2Scaled(l, v) = Dist2Scaled(<<0, 0>>, v)}) >= 3

\* the circumcenters of the origin and two more points of L
OriginCircumcenters(L) ==
    {LET cc == CalculateCircumcenter(<<<<0, 0>>, pq[1], pq[2]>>)
     IN  RatPoint(cc.num, cc.den) :
     pq \in {t \in L \X L : CircumcenterD(<<0, 0>>, t[1], t[2]) # 0}}

\* the origin lies on the convex hull of L
OriginOnHull(L) ==
    \E q \in L \ {<<0, 0>>} :
        \/ \A l \in L : Cross(<<0, 0>>, q, l) >= 0
        \/ \A l \in L : Cross(<<0, 0>>, q, l) <= 0

\* C11: a call that ends without an exception has tessellated the 9
\* lattice points i*a1 + j*a2, i, j in {-1, 0, 1}: if the region of the
\* point 0*a1 + 0*a2 is bounded it returns exactly the vertices of that
\* region, and if the region is unbounded it returns None.
C11_CentralRegionOrNone ==
    (pvc_pc = "ended" /\ pvc_exc = "none") =>
        IF OriginOnHull(NineLatticePoints)
          THEN pvc_ret = "None"
          ELSE /\ pvc_ret = "array"
               /\ {pvc_vertices[k] : k \in 1..Len(pvc_vertices)} =
                      {v \in OriginCircumcenters(NineLatticePoints) :
                          IsVertexOfOriginRegion(v, NineLatticePoints)}

\* a hexagonal region was returned
C11_Witness ==
    /\ pvc_pc = "ended"
    /\ pvc_ret = "array"
    /\ Len(pvc_vertices) = 6

\* C12 (as stated): the call never ends with an exception; when the
\* generation fails the error is logged and None is returned.
C12_NeverRaises ==
    pvc_pc = "ended" =>
        /\ pvc_exc = "none"
        /\ pvc_ret \in {"array", "None"}
        /\ (PvcTwoByTwo /\ Cross(<<0, 0>>, pvc_lattice_vectors[1],
                                 pvc_lattice_vectors[2]) = 0) =>
               (pvc_ret = "None" /\ pvc_log # <<>>)

\* the vertices, taken in the order of the array, go once around the
\* origin, each step turning by less than a half turn in the same sense
GoesAroundOrigin(polygon) ==
    LET n == Len(polygon)
        nxt(k) == IF k = n THEN 1 ELSE k + 1
        turn(k) == polygon[k].num[1] * polygon[nxt(k)].num[2]
                     - polygon[k].num[2] * polygon[nxt(k)].num[1]
        wraps == Cardinality({k \in 1..n :
                     ~AngleLess(polygon[k].num, polygon[nxt(k)].num)})
        unwraps == Cardinality({k \in 1..n :
                       ~AngleLess(polygon[nxt(k)].num, polygon[k].num)})
    IN  \/ (\A k \in 1..n : turn(k) > 0) /\ wraps = 1
        \/ (\A k \in 1..n : turn(k) < 0) /\ unwraps = 1

\* C13: for linearly independent 2x2 lattice vectors the call returns an
\* array of at least 4 vertices with 2 coordinates each, and the polygon
\* they form has the origin strictly inside.
C13_PolygonAroundOrigin ==
    (/\ pvc_pc = "ended"
     /\ PvcTwoByTwo
     /\ Cross(<<0, 0>>, pvc_lattice_vectors[1], pvc_lattice_vectors[2]) # 0)
        => /\ pvc_ret = "array"
           /\ Len(pvc_vertices) >= 4
           /\ \A k \in 1..Len(pvc_vertices) : Len(pvc_vertices[k].num) = 2
           /\ GoesAroundOrigin(pvc_vertices)

\* the square lattice returned its 4-vertex cell
C13_Witness ==
    /\ pvc_pc = "ended"
    /\ pvc_lattice_vectors = <<<<1, 0>>, <<0, 1>>>>
    /\ pvc_ret = "array"
    /\ Len(pvc_vertices) = 4

----------------------------------------------------------------------------
(* VoronoiAnalyzer._calculate_circumcenter called on its own *)

\* the coordinates tried are 0, 4, ..., 4 * MaxCircCoord
MaxCircCoord == 2

CircPoints ==
    {<<4 * i, 4 * j>> : i \in 0..MaxCircCoord, j \in 0..MaxCircCoord}

\* coordinates in units of 1 and in units of 10^-6
CircExponents == {0, 6}

CcInit ==
    /\ cc_triangle \in CircPoints \X CircPoints \X CircPoints
    /\ cc_exponent \in CircExponents
    /\ cc_pc = "call"
    /\ cc_result = <<>>

CalculateCircumcenterCall ==
    /\ cc_pc = "call"
    /\ cc_pc' = "returned"
    /\ cc_result' = CalculateCircumcenterIn(cc_triangle, cc_exponent)
    /\ UNCHANGED <<cc_triangle, cc_exponent>>

CcNext ==
    CalculateCircumcenterCall
      /\ UNCHANGED <<padVars, distVars, interpVars, pvcVars,
            callsVars, batchVars, corruptVars,
            processVars, cellVars>>

InitCc ==
    CcInit /\ PadIdle /\ DistIdle /\ InterpIdle /\ PvcIdle /\ CallsIdle
      /\ BatchIdle /\ CorruptIdle /\ ProcessIdle
      /\ CellIdle

SpecCc == InitCc /\ [][CcNext]_vars

(* Claims about _calculate_circumcenter *)

\* d = 2*(x0*(y1-y2) + x1*(y2-y0) + x2*(y0-y1)) of the argument
TriangleD ==
    2 * (cc_triangle[1][1] * (cc_triangle[2][2] - cc_triangle[3][2])
         + cc_triangle[2][1] * (cc_triangle[3][2] - cc_triangle[1][2])
         + cc_triangle[3][1] * (cc_triangle[1][2] - cc_triangle[2][2]))

\* |d| < 1e-10: with coordinates in units of 10^-6, d is TriangleD * 10^-12
TriangleNearCollinear ==
    \/ cc_exponent = 0 /\ TriangleD = 0
    \/ cc_exponent = 6 /\ TriangleD > -100 /\ TriangleD < 100

\* C14: when |d| < 1e-10 the call returns the centroid of the three
\* vertices; otherwise it returns a point at the same distance from the
\* three vertices.
C14_CentroidOrEquidistant ==
    cc_pc = "returned" =>
        IF TriangleNearCollinear
          THEN /\ cc_result.den = 3
               /\ cc_result.num =
                      <<cc_triangle[1][1] + cc_triangle[2][1]
                          + cc_triangle[3][1],
                        cc_triangle[1][2] + cc_triangle[2][2]
                          + cc_triangle[3][2]>>
          ELSE /\ cc_result.den # 0
               /\ Dist2Scaled(cc_triangle[1], cc_result) =
                      Dist2Scaled(cc_triangle[2], cc_result)
               /\ Dist2Scaled(cc_triangle[2], cc_result) =
                      Dist2Scaled(cc_triangle[3], cc_result)

\* a triangle that is not collinear but has |d| < 1e-10 got its centroid
C14_Witness ==
    /\ cc_pc = "returned"
    /\ TriangleD # 0
    /\ TriangleNearCollinear
    /\ cc_result.den = 3

----------------------------------------------------------------------------
(* A caller that makes several calls, one after the other, on one          *)
(* VoronoiAnalyzer and one WassersteinMetric.  The caller keeps the arrays *)
(* it passes; when a call returns it notes the arguments as they were      *)
(* passed, the arrays as they are now, and the result, and lets go of the  *)
(* arrays.                                                                 *)

\* largest number of calls the caller makes
MaxCalls == 3

\* the arguments of the pad_periodic_image calls
CallsPadArgs ==
    {[positions |-> <<<<0, 0>>>>, cell |-> <<<<3, 0>>, <<0, 3>>>>,
      n_a1 |-> 1, n_a2 |-> 1],
     [positions |-> <<<<0, 0>>, <<1, 0>>>>, cell |-> <<<<3, 0>>, <<-1, 2>>>>,
      n_a1 |-> 1, n_a2 |-> 2]}

\* the arguments of the calculate_distance calls: one point against three,
\* so the transport plan is the only one with the two marginals
CallsDistArgs ==
    {[set1 |-> <<<<0, 0>>>>, set2 |-> <<<<0, 0>>, <<0, 0>>, <<1, 1>>>>,
      bandwidth |-> BandwidthNone],
     [set1 |-> <<<<0, 0>>, <<0, 0>>, <<1, 1>>>>, set2 |-> <<<<0, 0>>>>,
      bandwidth |-> [none |-> FALSE, num |-> 1, den |-> 2]]}

\* the pairs (relaxed_points, unrelaxed_points) of the interpolation calls
CallsPointPairs == {<<InterpKiteRelaxed, InterpKite>>}

\* the query_points arguments: (4, 1) and (0, 3) lie in cells of three
\* vertices, (1, 0) in a cell of two vertices, where every fit raises
CallsQueryLists ==
    {<<<<4, 1>>>>,
     <<<<1, 0>>>>,
     <<<<4, 1>>, <<0, 3>>>>,
     <<<<0, 3>>, <<4, 1>>>>,
     <<<<1, 0>>, <<4, 1>>>>,
     <<<<4, 1>>, <<4, 1>>>>,
     <<<<4, 1>>, <<1, 0>>, <<0, 3>>>>}

\* the analyzer and the metric are constructed, no call was made
CallsInit ==
    /\ PadIdle
    /\ lattice_vectors = SquareLattice
    /\ cell_area = CellArea(SquareLattice)
    /\ setA = <<>>
    /\ setB = <<>>
    /\ bandwidth = BandwidthNone
    /\ emd_fails = FALSE
    /\ callAB = [status |-> "idle"]
    /\ callBA = [status |-> "idle"]
    /\ \E p \in CallsPointPairs :
          relaxed_points = p[1] /\ unrelaxed_points = p[2]
    /\ query_points = <<>>
    /\ pristine_cell = <<<<1, 1>>, <<-1, 1>>, <<-1, -1>>, <<1, -1>>>>
    /\ interp_pc = "idle"
    /\ InterpLocalsInit
    /\ rbf_global = "unknown"
    /\ rbf_fault = [site \in 1..Len(relaxed_points) |-> "unknown"]
    /\ CallsIdle

\* the caller calls analyzer.pad_periodic_image(positions, cell, n_a1, n_a2)
StartPad ==
    /\ passed = NoCall
    /\ calls_made < MaxCalls
    /\ calls_made' = calls_made + 1
    /\ \E a \in CallsPadArgs :
          /\ positions' = a.positions
          /\ cell' = a.cell
          /\ n_a1' = a.n_a1
          /\ n_a2' = a.n_a2
          /\ passed' = [fn |-> "pad",
                        args |-> <<a.positions, a.cell, a.n_a1, a.n_a2>>]
    /\ pad_pc' = "call"
    /\ offsets' = <<>>
    /\ pad_steps' = <<>>
    /\ pad_ret' = "pending"
    /\ padded_pos' = <<>>
    /\ pad_log' = <<>>
    /\ UNCHANGED <<hist_pad, hist_dist, hist_interp>>

\* pad_periodic_image returned to the caller
EndPad ==
    /\ passed.fn = "pad"
    /\ pad_pc = "returned"
    /\ pad_pc' = "idle"
    /\ hist_pad' = hist_pad \cup
           {[args |-> passed.args,
             after |-> <<positions, cell, n_a1, n_a2>>,
             result |-> [ret |-> pad_ret, value |-> padded_pos]]}
    /\ passed' = NoCall
    /\ positions' = <<>>
    /\ cell' = <<>>
    /\ n_a1' = 0
    /\ n_a2' = 0
    /\ offsets' = <<>>
    /\ pad_steps' = <<>>
    /\ pad_ret' = "pending"
    /\ padded_pos' = <<>>
    /\ pad_log' = <<>>
    /\ UNCHANGED <<calls_made, hist_dist, hist_interp>>

\* the caller calls metric.calculate_distance(set1, set2, bandwidth)
StartDist ==
    /\ passed = NoCall
    /\ calls_made < MaxCalls
    /\ calls_made' = calls_made + 1
    /\ \E a \in CallsDistArgs :
          /\ setA' = a.set1
          /\ setB' = a.set2
          /\ bandwidth' = a.bandwidth
          /\ passed' = [fn |-> "dist",
                        args |-> <<a.set1, a.set2, a.bandwidth>>]
    /\ callAB' = [status |-> "pending"]
    /\ UNCHANGED <<lattice_vectors, cell_area, emd_fails, callBA,
                   hist_pad, hist_dist, hist_interp>>

\* calculate_distance returned to the caller, or raised
EndDist ==
    /\ passed.fn = "dist"
    /\ callAB.status \notin {"pending", "idle"}
    /\ callAB' = [status |-> "idle"]
    /\ hist_dist' = hist_dist \cup
           {[args |-> passed.args,
             after |-> <<setA, setB, bandwidth>>,
             result |-> callAB]}
    /\ passed' = NoCall
    /\ setA' = <<>>
    /\ setB' = <<>>
    /\ bandwidth' = BandwidthNone
    /\ UNCHANGED <<lattice_vectors, cell_area, emd_fails, callBA, calls_made,
                   hist_pad, hist_interp>>

\* the caller calls analyzer.interpolate_displacements(relaxed_points,
\* unrelaxed_points, query_points, pristine_cell) with another query_points
StartInterp ==
    /\ passed = NoCall
    /\ calls_made < MaxCalls
    /\ calls_made' = calls_made + 1
    /\ \E q \in CallsQueryLists :
          /\ query_points' = q
          /\ passed' = [fn |-> "interp",
                        args |-> <<relaxed_points, unrelaxed_points, q,
                                   pristine_cell>>]
    /\ interp_pc' = "call"
    /\ interp_steps' = <<>>
    /\ interp_log' = <<>>
    /\ interp_ret' = "pending"
    /\ tri_relaxed' = [raised |-> FALSE, simplices |-> <<>>]
    /\ tri_unrelaxed' = [raised |-> FALSE, simplices |-> <<>>]
    /\ circumcenters_unrelaxed' = <<>>
    /\ circumcenters_rbf' = <<>>
    /\ q_done' = 0
    /\ interp_trace' = <<>>
    /\ interpolated_pristine' = <<>>
    /\ interpolated_unrelaxed' = <<>>
    /\ UNCHANGED <<relaxed_points, unrelaxed_points, pristine_cell,
                   rbf_global, rbf_fault, hist_pad, hist_dist, hist_interp>>

\* interpolate_displacements returned to the caller
EndInterp ==
    /\ passed.fn = "interp"
    /\ interp_pc = "returned"
    /\ interp_pc' = "idle"
    /\ hist_interp' = hist_interp \cup
           {[args |-> passed.args,
             after |-> <<relaxed_points, unrelaxed_points, query_points,
                         pristine_cell>>,
             result |-> [ret |-> interp_ret,
                         pristine |-> interpolated_pristine,
                         unrelaxed |-> interpolated_unrelaxed,
                         circumcenters_unrelaxed |-> circumcenters_unrelaxed,
                         circumcenters_rbf |-> circumcenters_rbf],
             trace |-> interp_trace]}
    /\ passed' = NoCall
    /\ query_points' = <<>>
    /\ interp_steps' = <<>>
    /\ interp_log' = <<>>
    /\ interp_ret' = "pending"
    /\ tri_relaxed' = [raised |-> FALSE, simplices |-> <<>>]
    /\ tri_unrelaxed' = [raised |-> FALSE, simplices |-> <<>>]
    /\ circumcenters_unrelaxed' = <<>>
    /\ circumcenters_rbf' = <<>>
    /\ q_done' = 0
    /\ interp_trace' = <<>>
    /\ interpolated_pristine' = <<>>
    /\ interpolated_unrelaxed' = <<>>
    /\ UNCHANGED <<relaxed_points, unrelaxed_points, pristine_cell,
                   rbf_global, rbf_fault, calls_made, hist_pad, hist_dist>>

CallsNext ==
    \/ StartPad /\ UNCHANGED <<distVars, interpVars, pvcVars, ccVars,
            batchVars, corruptVars, processVars,
            cellVars>>
    \/ PadCall /\ UNCHANGED <<distVars, interpVars, pvcVars, ccVars,
            callsVars, batchVars, corruptVars,
            processVars, cellVars>>
    \/ EndPad /\ UNCHANGED <<distVars, interpVars, pvcVars, ccVars,
            batchVars, corruptVars, processVars,
            cellVars>>
    \/ StartDist /\ UNCHANGED <<padVars, interpVars, pvcVars, ccVars,
            batchVars, corruptVars, processVars,
            cellVars>>
    \/ CallAB /\ UNCHANGED <<padVars, interpVars, pvcVars, ccVars,
            callsVars, batchVars, corruptVars,
            processVars, cellVars>>
    \/ EndDist /\ UNCHANGED <<padVars, interpVars, pvcVars, ccVars,
            batchVars, corruptVars, processVars,
            cellVars>>
    \/ StartInterp /\ UNCHANGED <<padVars, distVars, pvcVars, ccVars,
            batchVars, corruptVars, processVars,
            cellVars>>
    \/ InterpCall /\ UNCHANGED <<padVars, distVars, pvcVars, ccVars,
            callsVars, batchVars, corruptVars,
            processVars, cellVars>>
    \/ InterpQueryPoint /\ UNCHANGED <<padVars, distVars, pvcVars, ccVars,
            callsVars, batchVars, corruptVars,
            processVars, cellVars>>
    \/ InterpReturn /\ UNCHANGED <<padVars, distVars, pvcVars, ccVars,
            callsVars, batchVars, corruptVars,
            processVars, cellVars>>
    \/ EndInterp /\ UNCHANGED <<padVars, distVars, pvcVars, ccVars,
            batchVars, corruptVars, processVars,
            cellVars>>

InitCalls ==
    CallsInit /\ PvcIdle /\ CcIdle /\ BatchIdle /\ CorruptIdle /\ ProcessIdle
      /\ CellIdle

SpecCalls == InitCalls /\ [][CallsNext]_vars

(* Claims about sequences of calls *)

\* the calls of interpolate_displacements that reached the end of their loop
LoopedCalls == {c \in hist_interp : Len(c.trace) = Len(c.args[3])}

\* what the call c returned for its query point number i: nothing when the
\* point was skipped, else the rows of the two output arrays that belong
\* to it
PointResult(c, i) ==
    LET rank == Cardinality({k \in 1..i : c.trace[k].outcome = "ok"})
    IN  IF c.trace[i].outcome = "ok"
          THEN [skipped |-> FALSE,
                value |-> <<c.result.pristine[rank],
                            c.result.unrelaxed[rank]>>]
          ELSE [skipped |-> TRUE, value |-> <<>>]

SameArgsSameResult(hist) ==
    \A c1, c2 \in hist : c1.args = c2.args => c1.result = c2.result

\* the arrays passed to a call are, when it returns, as they were passed
ArgsUntouched(hist) == \A c \in hist : c.after = c.args

----------------------------------------------------------------------------
(* scripts/3_calculate_distances.py: main and its worker pool.  The        *)
(* structures found in relaxed_dir are numbered 1..n in the order of       *)
(* structure_paths; their file names are taken to have the seed and the    *)
(* corruption index where lines 187-188 read them.                         *)

\* largest number of structures in relaxed_dir
MaxStructures == 5

\* the parameters of process_structure: args, logger
ProcessStructureParams == 2

\* pool.map calls its function with one argument, the item
MapPassesArgs == 1

\* the values of mp.cpu_count() tried
CpuCounts == {1, 2}

\* the call process_structure(process_args[i]) that a worker makes.  A call
\* that does not bind the parameters raises TypeError before the body; the
\* body returns the distance (here: the structure's number) or, from one of
\* its except clauses, None.
ProcessStructure(i) ==
    IF MapPassesArgs # ProcessStructureParams
      THEN [kind |-> "raised", distance |-> 0]
    ELSE IF structure_sound[i]
      THEN [kind |-> "value", distance |-> i]
      ELSE [kind |-> "None", distance |-> 0]

\* Pool.map: the chunk size for n items on a pool of the given size
ChunkSize(n, pool_size) ==
    IF n % (pool_size * 4) # 0
      THEN (n \div (pool_size * 4)) + 1
      ELSE n \div (pool_size * 4)

\* the number of chunks, and the items of chunk c, in order
ChunkCount(n, pool_size) ==
    IF n = 0 THEN 0
    ELSE (n + ChunkSize(n, pool_size) - 1) \div ChunkSize(n, pool_size)

ChunkItems(c, n, pool_size) ==
    {i \in 1..n : (i - 1) \div ChunkSize(n, pool_size) = c - 1}

\* mapstar: list(map(func, chunk)) stops at the first item whose call
\* raises; the items that were called
CalledInChunk(items) ==
    {i \in items :
        \A k \in items : k < i => ProcessStructure(k).kind # "raised"}

BatchInit ==
    /\ structure_sound \in
           UNION {[1..n -> BOOLEAN] : n \in 0..MaxStructures}
    /\ n_cpus \in CpuCounts
    /\ batch_pc = "start"
    /\ chunks_done = {}
    /\ batch_called = {}
    /\ batch_results = [i \in 1..Len(structure_sound) |-> "pending"]
    /\ batch_output = "absent"
    /\ batch_ret = "pending"
    /\ batch_log = <<>>

\* main up to the submission of the map (lines 138-176); the argument and
\* resource checks are taken to pass
BatchMain ==
    /\ batch_pc = "start"
    /\ IF Len(structure_sound) = 0
         THEN /\ batch_log' = Append(batch_log, "No structures found")
              /\ batch_ret' = 1
              /\ batch_pc' = "ended"
         ELSE /\ batch_pc' = "map"
              /\ UNCHANGED <<batch_log, batch_ret>>
    /\ UNCHANGED <<structure_sound, n_cpus, chunks_done, batch_called,
                   batch_results, batch_output>>

\* a worker of the pool takes a chunk and runs mapstar on it
WorkerRunsChunk ==
    /\ batch_pc = "map"
    /\ \E c \in 1..ChunkCount(Len(structure_sound), n_cpus) :
          /\ c \notin chunks_done
          /\ chunks_done' = chunks_done \cup {c}
          /\ LET called == CalledInChunk(
                               ChunkItems(c, Len(structure_sound), n_cpus))
             IN  /\ batch_called' = batch_called \cup called
                 /\ batch_results' =
                        [i \in 1..Len(structure_sound) |->
                            IF i \in called
                              THEN ProcessStructure(i).kind
                              ELSE batch_results[i]]
    /\ UNCHANGED <<structure_sound, n_cpus, batch_pc, batch_output,
                   batch_ret, batch_log>>

\* the rows of the array that np.save writes: one per structure
ResultRows ==
    [i \in 1..Len(structure_sound) |->
        [structure |-> i, distance |-> ProcessStructure(i).distance]]

\* pool.map returns once every chunk is done, or raises the first exception
\* of a worker; then lines 178-198, or the except clause of line 200
BatchAfterMap ==
    /\ batch_pc = "map"
    /\ chunks_done = 1..ChunkCount(Len(structure_sound), n_cpus)
    /\ batch_pc' = "ended"
    /\ IF \E i \in 1..Len(structure_sound) : batch_results[i] = "raised"
         THEN /\ batch_log' = Append(batch_log, "Unexpected error")
              /\ batch_ret' = 1
              /\ UNCHANGED batch_output
       ELSE IF \E i \in 1..Len(structure_sound) : batch_results[i] = "None"
         THEN /\ batch_log' = Append(batch_log, "Failed calculations")
              /\ batch_ret' = 1
              /\ UNCHANGED batch_output
         ELSE /\ batch_output' = ResultRows
              /\ batch_ret' = 0
              /\ UNCHANGED batch_log
    /\ UNCHANGED <<structure_sound, n_cpus, chunks_done, batch_called,
                   batch_results>>

BatchNext ==
    \/ BatchMain /\ UNCHANGED <<padVars, distVars, interpVars, pvcVars,
            ccVars, callsVars, corruptVars,
            processVars, cellVars>>
    \/ WorkerRunsChunk /\ UNCHANGED <<padVars, distVars, interpVars, pvcVars,
            ccVars, callsVars, corruptVars,
            processVars, cellVars>>
    \/ BatchAfterMap /\ UNCHANGED <<padVars, distVars, interpVars, pvcVars,
            ccVars, callsVars, corruptVars,
            processVars, cellVars>>

InitBatch ==
    BatchInit /\ PadIdle /\ DistIdle /\ InterpIdle /\ PvcIdle /\ CcIdle
      /\ CallsIdle /\ CorruptIdle /\ ProcessIdle
      /\ CellIdle

SpecBatch == InitBatch /\ [][BatchNext]_vars

(* Claims about the batch distance script *)

\* the structures whose processing gave a distance
Succeeded == {i \in 1..Len(structure_sound) : batch_results[i] = "value"}

\* C17: when main has ended for two or more structures of which one could
\* not be processed, process_structure was called for every structure and
\* the output file holds the distances of the structures that succeeded.
C17_FailureIsolated ==
    (/\ batch_pc = "ended"
     /\ Len(structure_sound) >= 2
     /\ \E i \in 1..Len(structure_sound) : ~structure_sound[i])
        => /\ batch_called = 1..Len(structure_sound)
           /\ batch_output # "absent"
           /\ \A i \in Succeeded :
                 \E k \in 1..Len(batch_output) :
                    batch_output[k] = [structure |-> i, distance |-> i]

----------------------------------------------------------------------------
(* interpolate_displacements with relaxed_points = unrelaxed_points and    *)
(* query points that are sites.  Here the values are exact: a thin plate   *)
(* spline fitted to data that an affine map reproduces is that affine map, *)
(* so the global warp and the warp of the cell are the identity, and a     *)
(* spline returns at a data point the value it was fitted to.  The point   *)
(* arrays tried have circumcenters with integer coordinates.               *)

\* a circumcenter num / den with integer coordinates, as a row
IntegerPoint(c) == <<c.num[1] \div c.den, c.num[2] \div c.den>>

\* np.vstack([points[nearest_idx], circumcenters[indices]])
CellVertices(site_point, circumcenters, indices) ==
    <<site_point>> \o
        [k \in 1..Len(indices) |-> IntegerPoint(circumcenters[indices[k]])]

\* len(cell) * np.mean(cell, axis=0)
CellSum(cell_vertices) ==
    <<SumSeq([k \in 1..Len(cell_vertices) |-> cell_vertices[k][1]]),
      SumSeq([k \in 1..Len(cell_vertices) |-> cell_vertices[k][2]])>>

\* cdist entry in units of 1/NormScale, rounded down
CdistEntry(p, q) == ISqrtBetween(NormScale * NormScale * Dist2(p, q), 0, 4096)

\* the one-to-one maps of the rows 1..n_rows of a cost matrix to its columns
\* whose total cost is within the rounding of the least total cost
LeastCostMatchings(cost_matrix, n_rows, n_columns) ==
    LET matchings ==
            {a \in [1..n_rows -> 1..n_columns] :
                \A r1, r2 \in 1..n_rows : a[r1] = a[r2] => r1 = r2}
        Total(a) == SumSeq([r \in 1..n_rows |-> cost_matrix[r][a[r]]])
    IN  UNION {{a \in matchings : Total(a) <= least + n_rows - 1} :
                 least \in {CHOOSE c \in {Total(a) : a \in matchings} :
                               \A a \in matchings : c <= Total(a)}}

\* _map_to_cell, lines 323-327: the centering of the two vertex arrays and
\* the matching col_ind of linear_sum_assignment(cdist(...)), for at most as
\* many original as target vertices
MapToCellMatchings(original_vertices, target_vertices, original_center, target_center) ==
    LET original_vertices_centered ==
            [r \in 1..Len(original_vertices) |->
                VecSub(original_vertices[r],
                       VecSub(original_center, target_center))]
        target_vertices_centered ==
            [t \in 1..Len(target_vertices) |->
                VecSub(target_vertices[t], target_center)]
    IN  UNION {LeastCostMatchings(cost_matrix, Len(original_vertices),
                                  Len(target_vertices)) :
                 cost_matrix \in
                   {[r \in 1..Len(original_vertices) |->
                       [t \in 1..Len(target_vertices) |->
                           CdistEntry(original_vertices_centered[r],
                                      target_vertices_centered[t])]]}}

\* _map_to_cell, lines 329-338, for a point that is the original vertex of
\* the given row: tps returns the matched centred target vertex, and adding
\* target_center gives the target vertex itself.  The coordinates are in
\* units of 1/scale.
MapToCellAtVertex(row, col_ind, target_vertices, scale) ==
    RatPoint(target_vertices[col_ind[row]], scale)

\* one iteration of the loop over query_points, for a query point that is
\* the site relaxed_points[nearest_idx] = unrelaxed_points[nearest_idx]
InterpQueryPointAtSite ==
    /\ interp_pc = "loop"
    /\ q_done < Len(query_points)
    /\ relaxed_points = unrelaxed_points
    /\ query_points[q_done + 1] =
           relaxed_points[NearestSite(query_points[q_done + 1])]
    /\ \E fault \in FitFaults(NearestSite(query_points[q_done + 1])) :
          LET query_point == query_points[q_done + 1]
              nearest_idx == NearestSite(query_point)
              r == ProcessQueryPoint(query_point, fault)
              indices == FindVoronoiCell(query_point, relaxed_points,
                             tri_unrelaxed.simplices).cell_indices
              vertices_unrelaxed ==
                  CellVertices(unrelaxed_points[nearest_idx],
                               circumcenters_unrelaxed, indices)
              n == Len(pristine_cell)
              \* the pristine frame, in units of 1/n
              pristine_cell_extended ==
                  [k \in 1..(n + 1) |->
                      IF k <= n THEN VecScale(n, pristine_cell[k])
                                ELSE CellSum(pristine_cell)]
          IN  /\ rbf_fault' =
                     [rbf_fault EXCEPT
                        ![nearest_idx] =
                            IF r.outcome = fault THEN fault ELSE "none"]
              /\ IF r.outcome = "ok"
                   THEN \E cp \in MapToCellMatchings(
                                    [k \in 1..Len(vertices_unrelaxed) |->
                                        VecScale(n, vertices_unrelaxed[k])],
                                    pristine_cell_extended,
                                    VecScale(n, unrelaxed_points[nearest_idx]),
                                    CellSum(pristine_cell)),
                           cu \in MapToCellMatchings(
                                    vertices_unrelaxed, vertices_unrelaxed,
                                    unrelaxed_points[nearest_idx],
                                    unrelaxed_points[nearest_idx]) :
                          /\ interpolated_pristine' =
                                 Append(interpolated_pristine,
                                        MapToCellAtVertex(
                                            1, cp, pristine_cell_extended, n))
                          /\ interpolated_unrelaxed' =
                                 Append(interpolated_unrelaxed,
                                        MapToCellAtVertex(
                                            1, cu, vertices_unrelaxed, 1))
                   ELSE UNCHANGED <<interpolated_pristine,
                                    interpolated_unrelaxed>>
              /\ interp_log' = interp_log \o r.log
              /\ interp_trace' =
                     Append(interp_trace,
                            [index |-> q_done + 1, outcome |-> r.outcome])
              /\ q_done' = NextIteration(r.outcome, q_done,
                                         Len(query_points))
    /\ UNCHANGED <<relaxed_points, unrelaxed_points, query_points,
                   pristine_cell, interp_pc, interp_steps, interp_ret,
                   tri_relaxed, tri_unrelaxed, circumcenters_unrelaxed,
                   circumcenters_rbf, rbf_global>>

(* The inputs tried *)
\* four sites with the triangles (1,2,3), (2,3,4) and the circumcenters
\* (4, 4), (7, 7)
IdentityKite == <<<<0, 0>>, <<8, 0>>, <<0, 8>>, <<12, 12>>>>
\* a site inside a square of four: four triangles around the first site,
\* with the circumcenters (2, 2), (-2, 2), (-2, -2), (2, -2)
IdentityCross == <<<<0, 0>>, <<4, 0>>, <<0, 4>>, <<-4, 0>>, <<0, -4>>>>

IdentityPoints == {IdentityKite, IdentityCross}

\* a square cell around the origin, the same cell around (4, 4), and a
\* rectangle around the origin
IdentityCells ==
    {<<<<2, 2>>, <<-2, 2>>, <<-2, -2>>, <<2, -2>>>>,
     <<<<6, 6>>, <<2, 6>>, <<2, 2>>, <<6, 2>>>>,
     <<<<3, 1>>, <<-3, 1>>, <<-3, -1>>, <<3, -1>>>>}

IdentityInit ==
    /\ relaxed_points \in IdentityPoints
    /\ unrelaxed_points = relaxed_points
    /\ query_points \in
           UNION {[1..n -> {relaxed_points[k] :
                              k \in 1..Len(relaxed_points)}] : n \in 1..2}
    /\ pristine_cell \in IdentityCells
    /\ interp_pc = "call"
    /\ InterpLocalsInit
    /\ rbf_global = "unknown"
    /\ rbf_fault = [site \in 1..Len(relaxed_points) |-> "unknown"]

IdentityNext ==
    \/ InterpCall /\ UNCHANGED <<padVars, distVars, pvcVars, ccVars,
            callsVars, batchVars, corruptVars,
            processVars, cellVars>>
    \/ InterpQueryPointAtSite /\ UNCHANGED <<padVars, distVars, pvcVars, ccVars,
            callsVars, batchVars, corruptVars,
            processVars, cellVars>>
    \/ InterpReturn /\ UNCHANGED <<padVars, distVars, pvcVars, ccVars,
            callsVars, batchVars, corruptVars,
            processVars, cellVars>>

InitIdentity ==
    IdentityInit /\ PadIdle /\ DistIdle /\ PvcIdle /\ CcIdle /\ CallsIdle
      /\ BatchIdle /\ CorruptIdle /\ ProcessIdle
      /\ CellIdle

SpecIdentity == InitIdentity /\ [][IdentityNext]_vars

(* Claims about the identity configuration *)

\* np.mean(pristine_cell, axis=0)
PristineCenter == RatPoint(CellSum(pristine_cell), Len(pristine_cell))

----------------------------------------------------------------------------
(* One iteration of the loop of interpolate_displacements in full, for     *)
(* relaxed points that are an affine image of the unrelaxed points and      *)
(* query points that are relaxed sites.  A thin plate spline with its       *)
(* degree-1 polynomial reproduces data that an affine map fits, so the      *)
(* global warp is that affine map and the warp of a cell is its inverse,    *)
(* and a spline returns at a data point the value it was fitted to.  The    *)
(* point arrays tried have circumcenters with integer coordinates.          *)

\* an affine map p |-> m p + t
ApplyWarp(w, p) ==
    <<w.m[1][1] * p[1] + w.m[1][2] * p[2] + w.t[1],
      w.m[2][1] * p[1] + w.m[2][2] * p[2] + w.t[2]>>

\* the identity and the rotation by a quarter turn about the origin
CellWarps ==
    {[m |-> <<<<1, 0>>, <<0, 1>>>>, t |-> <<0, 0>>],
     [m |-> <<<<0, -1>>, <<1, 0>>>>, t |-> <<0, 0>>]}

\* the affine maps of CellWarps that carry unrelaxed_points to
\* relaxed_points, row by row
GlobalWarps ==
    {w \in CellWarps :
        relaxed_points =
            [k \in 1..Len(unrelaxed_points) |->
                ApplyWarp(w, unrelaxed_points[k])]}

\* circumcenters_rbf = rbf_interpolator(circumcenters_unrelaxed), line 154,
\* as rows
CircumcentersRbfRows(w) ==
    [k \in 1..Len(circumcenters_unrelaxed) |->
        ApplyWarp(w, IntegerPoint(circumcenters_unrelaxed[k]))]

\* circumcenters_unrelaxed as rows
CircumcentersUnrelaxedRows ==
    [k \in 1..Len(circumcenters_unrelaxed) |->
        IntegerPoint(circumcenters_unrelaxed[k])]

\* where np.arctan2(d[2], d[1]) lies: 1 in (-pi, 0), 2 at 0 (also for the
\* zero vector), 3 in (0, pi), 4 at pi
Atan2Class(d) ==
    IF d[2] < 0 THEN 1
    ELSE IF d[2] > 0 THEN 3
    ELSE IF d[1] >= 0 THEN 2 ELSE 4

\* (variant of Atan2Less for angles counted from 0 to 2 pi)
Atan2LessFromZero(d, e) ==
    LET turn(x) == IF Atan2Class(x) = 1 THEN 5 ELSE Atan2Class(x)
    IN  \/ turn(d) < turn(e)
        \/ /\ turn(d) = turn(e)
           /\ Atan2Class(d) \in {1, 3}
           /\ d[1] * e[2] - d[2] * e[1] > 0

\* np.arctan2(d[2], d[1]) < np.arctan2(e[2], e[1])
Atan2Less(d, e) ==
    \/ Atan2Class(d) < Atan2Class(e)
    \/ /\ Atan2Class(d) = Atan2Class(e)
       /\ Atan2Class(d) \in {1, 3}
       /\ d[1] * e[2] - d[2] * e[1] > 0

\* np.argsort(angles): the orders of 1..n in which the angles of the
\* directions ascend; the order among equal angles is not specified for the
\* default sort kind
Argsort(directions) ==
    {order \in [1..Len(directions) -> 1..Len(directions)] :
        /\ \A a, b \in 1..Len(directions) : order[a] = order[b] => a = b
        /\ \A a, b \in 1..Len(directions) :
              a < b => ~Atan2Less(directions[order[b]], directions[order[a]])}

\* _find_voronoi_cell, lines 290-306, with the circumcenters as rows: the
\* possible results
FindVoronoiCellSorted(query_point, points, simplices, circumcenters) ==
    LET found == FindVoronoiCell(query_point, points, simplices)
        containing == found.cell_indices
        site == points[found.nearest_point_index]
        directions ==
            [k \in 1..Len(containing) |->
                VecSub(circumcenters[containing[k]], site)]
    IN  {[none |-> found.none,
          nearest_point_index |-> found.nearest_point_index,
          cell_indices |-> [k \in 1..Len(containing) |-> containing[order[k]]]] :
            order \in Argsort(directions)}

\* np.vstack([points[nearest_idx], circumcenters[indices]]) for circumcenters
\* given as rows
VStack(site_point, circumcenters, indices) ==
    <<site_point>> \o [k \in 1..Len(indices) |-> circumcenters[indices[k]]]

\* RBFInterpolator(vertices_relaxed, vertices_unrelaxed), lines 190-194: the
\* row of the values that each row of the data points is fitted to
WarpFitRows(vertices_relaxed, vertices_unrelaxed) ==
    [k \in 1..Len(vertices_relaxed) |-> k]

\* rbf_voronoi(query_point)[0], line 195, for a query point that is a row of
\* vertices_relaxed
WarpedPoint(query_point, vertices_relaxed, vertices_unrelaxed) ==
    LET rows == WarpFitRows(vertices_relaxed, vertices_unrelaxed)
        k == CHOOSE i \in 1..Len(vertices_relaxed) :
                 vertices_relaxed[i] = query_point
    IN  vertices_unrelaxed[rows[k]]

\* _map_to_cell, lines 323-327, called with one center for two lists of the
\* same vertices: the matchings that cost exactly the least.  Every pair of
\* the matching of equal vertices is apart by the center, so by the triangle
\* inequality a matching costs the same only if each of its pairs is apart
\* by a non-negative multiple of the center.
SelfMatchings(original_vertices, target_vertices, center) ==
    {col_ind \in MapToCellMatchings(original_vertices, target_vertices,
                                    center, center) :
        \A r \in 1..Len(original_vertices) :
            LET apart == VecSub(original_vertices[r],
                                VecSub(target_vertices[col_ind[r]], center))
            IN  /\ apart[1] * center[2] = apart[2] * center[1]
                /\ apart[1] * center[1] + apart[2] * center[2] >= 0
                /\ center = <<0, 0>> => apart = <<0, 0>>}

\* the locals of one _map_to_cell call, lines 323-327, for at most as many
\* original as target vertices
MapToCellLocals(original_vertices, target_vertices, original_center, target_center, col_ind) ==
    [original_vertices |-> original_vertices,
     target_vertices |-> target_vertices,
     original_center |-> original_center,
     target_center |-> target_center,
     original_vertices_centered |->
         [r \in 1..Len(original_vertices) |->
             VecSub(original_vertices[r],
                    VecSub(original_center, target_center))],
     target_vertices_centered |->
         [t \in 1..Len(target_vertices) |->
             VecSub(target_vertices[t], target_center)],
     col_ind |-> col_ind]

\* what a _find_voronoi_cell call was given and what it found
FindCall(query_point, points, circumcenters, found) ==
    [query_point |-> query_point, points |-> points,
     circumcenters |-> circumcenters, none |-> found.none,
     cell_indices |-> found.cell_indices,
     nearest_point_index |-> found.nearest_point_index]

\* the locals of the loop body, lines 169-230, as far as the iteration got
IterationLocals(outcome, index, nearest_idx, indices, vertices_relaxed, vertices_unrelaxed, point, unrelaxed_vertices) ==
    [outcome |-> outcome, index |-> index, nearest_idx |-> nearest_idx,
     indices |-> indices,
     vertices_relaxed |-> vertices_relaxed,
     vertices_unrelaxed |-> vertices_unrelaxed,
     fit_rows |-> IF point = <<>> THEN <<>>
                  ELSE WarpFitRows(vertices_relaxed, vertices_unrelaxed),
     point |-> point,
     unrelaxed_vertices |-> unrelaxed_vertices]

\* one iteration of the loop over query_points, lines 166-241, for a query
\* point that is the site relaxed_points[nearest_idx]
InterpQueryPointInCell ==
    /\ interp_pc = "loop"
    /\ q_done < Len(query_points)
    /\ query_points[q_done + 1] =
           relaxed_points[NearestSite(query_points[q_done + 1])]
    /\ \E w \in GlobalWarps,
          fault \in FitFaults(NearestSite(query_points[q_done + 1])) :
        \E found \in FindVoronoiCellSorted(
                         query_points[q_done + 1], relaxed_points,
                         tri_unrelaxed.simplices, CircumcentersRbfRows(w)) :
          LET query_point == query_points[q_done + 1]
              nearest_idx == found.nearest_point_index
              r == ProcessQueryPoint(query_point, fault)
              indices == found.cell_indices
              first_find == FindCall(query_point, relaxed_points,
                                     CircumcentersRbfRows(w), found)
              vertices_relaxed ==
                  VStack(relaxed_points[nearest_idx],
                         CircumcentersRbfRows(w), indices)
              vertices_unrelaxed ==
                  VStack(unrelaxed_points[nearest_idx],
                         CircumcentersUnrelaxedRows, indices)
              point == WarpedPoint(query_point, vertices_relaxed,
                                   vertices_unrelaxed)
              n == Len(pristine_cell)
              \* the pristine frame, in units of 1/n
              pristine_cell_extended ==
                  [k \in 1..(n + 1) |->
                      IF k <= n THEN VecScale(n, pristine_cell[k])
                                ELSE CellSum(pristine_cell)]
              scaled_vertices ==
                  [k \in 1..Len(vertices_unrelaxed) |->
                      VecScale(n, vertices_unrelaxed[k])]
              scaled_center == VecScale(n, unrelaxed_points[nearest_idx])
          IN  /\ rbf_fault' =
                     [rbf_fault EXCEPT
                        ![nearest_idx] =
                            IF r.outcome = fault THEN fault ELSE "none"]
              /\ interp_log' = interp_log \o r.log
              /\ interp_trace' =
                     Append(interp_trace,
                            [index |-> q_done + 1, outcome |-> r.outcome])
              /\ q_done' = NextIteration(r.outcome, q_done,
                                         Len(query_points))
              /\ CASE r.outcome = "find_cell" ->
                        /\ iteration' =
                               IterationLocals(r.outcome, q_done + 1,
                                   nearest_idx, <<>>, <<>>, <<>>, <<>>, <<>>)
                        /\ find_calls' = <<first_find>>
                        /\ map_calls' = <<>>
                        /\ UNCHANGED <<interpolated_pristine,
                                       interpolated_unrelaxed>>
                   [] r.outcome = "warp" ->
                        /\ iteration' =
                               IterationLocals(r.outcome, q_done + 1,
                                   nearest_idx, indices, vertices_relaxed,
                                   vertices_unrelaxed, <<>>, <<>>)
                        /\ find_calls' = <<first_find>>
                        /\ map_calls' = <<>>
                        /\ UNCHANGED <<interpolated_pristine,
                                       interpolated_unrelaxed>>
                   [] r.outcome = "map_pristine" ->
                        /\ iteration' =
                               IterationLocals(r.outcome, q_done + 1,
                                   nearest_idx, indices, vertices_relaxed,
                                   vertices_unrelaxed, point, <<>>)
                        /\ find_calls' = <<first_find>>
                        /\ map_calls' = <<>>
                        /\ UNCHANGED <<interpolated_pristine,
                                       interpolated_unrelaxed>>
                   [] OTHER ->
                        \E again \in FindVoronoiCellSorted(
                                         unrelaxed_points[nearest_idx],
                                         unrelaxed_points,
                                         tri_unrelaxed.simplices,
                                         CircumcentersUnrelaxedRows),
                           cp \in MapToCellMatchings(
                                      scaled_vertices, pristine_cell_extended,
                                      scaled_center, CellSum(pristine_cell)) :
                          LET unrelaxed_vertices ==
                                  VStack(unrelaxed_points[nearest_idx],
                                         CircumcentersUnrelaxedRows,
                                         again.cell_indices)
                              second_find ==
                                  FindCall(unrelaxed_points[nearest_idx],
                                           unrelaxed_points,
                                           CircumcentersUnrelaxedRows, again)
                              to_pristine ==
                                  MapToCellLocals(scaled_vertices,
                                      pristine_cell_extended, scaled_center,
                                      CellSum(pristine_cell), cp)
                          IN  /\ iteration' =
                                     IterationLocals(r.outcome, q_done + 1,
                                         nearest_idx, indices,
                                         vertices_relaxed, vertices_unrelaxed,
                                         point, unrelaxed_vertices)
                              /\ find_calls' = <<first_find, second_find>>
                              /\ IF r.outcome = "ok"
                                   THEN \E cu \in SelfMatchings(
                                                      vertices_unrelaxed,
                                                      unrelaxed_vertices,
                                                      unrelaxed_points[nearest_idx]) :
                                          /\ map_calls' =
                                                 <<to_pristine,
                                                   MapToCellLocals(
                                                       vertices_unrelaxed,
                                                       unrelaxed_vertices,
                                                       unrelaxed_points[nearest_idx],
                                                       unrelaxed_points[nearest_idx],
                                                       cu)>>
                                          /\ interpolated_pristine' =
                                                 Append(interpolated_pristine,
                                                     MapToCellAtVertex(
                                                         1, cp,
                                                         pristine_cell_extended,
                                                         n))
                                          /\ interpolated_unrelaxed' =
                                                 Append(interpolated_unrelaxed,
                                                     MapToCellAtVertex(
                                                         1, cu,
                                                         unrelaxed_vertices,
                                                         1))
                                   ELSE /\ map_calls' = <<to_pristine>>
                                        /\ UNCHANGED <<interpolated_pristine,
                                                       interpolated_unrelaxed>>
    /\ UNCHANGED <<relaxed_points, unrelaxed_points, query_points,
                   pristine_cell, interp_pc, interp_steps, interp_ret,
                   tri_relaxed, tri_unrelaxed, circumcenters_unrelaxed,
                   circumcenters_rbf, rbf_global>>

(* The inputs tried *)
\* largest number of query points of one call
MaxCellQueries == 1

\* the sites of IdentityCross moved by (4, 4): the circumcenters around the
\* first site are (6, 6), (2, 6), (2, 2), (6, 2)
CellCrossShifted == <<<<4, 4>>, <<8, 4>>, <<4, 8>>, <<0, 4>>, <<4, 0>>>>
\* the sites of IdentityKite with the site (8, 0) listed twice
CellKiteDup == <<<<8, 0>>, <<0, 0>>, <<8, 0>>, <<0, 8>>, <<12, 12>>>>

CellPoints == {IdentityKite, IdentityCross, CellCrossShifted, CellKiteDup}

CellInit ==
    /\ unrelaxed_points \in CellPoints
    /\ \E w \in CellWarps :
          relaxed_points =
              [k \in 1..Len(unrelaxed_points) |->
                  ApplyWarp(w, unrelaxed_points[k])]
    /\ query_points \in
           UNION {[1..n -> {relaxed_points[k] :
                              k \in 1..Len(relaxed_points)}] :
                    n \in 1..MaxCellQueries}
    /\ pristine_cell \in IdentityCells
    /\ interp_pc = "call"
    /\ InterpLocalsInit
    /\ rbf_global = "unknown"
    /\ rbf_fault = [site \in 1..Len(relaxed_points) |-> "unknown"]
    /\ iteration = NoIteration
    /\ find_calls = <<>>
    /\ map_calls = <<>>

CellNext ==
    \/ InterpCall /\ UNCHANGED <<padVars, distVars, pvcVars, ccVars,
            callsVars, batchVars, corruptVars, processVars, cellVars>>
    \/ InterpQueryPointInCell /\ UNCHANGED <<padVars, distVars, pvcVars,
            ccVars, callsVars, batchVars, corruptVars, processVars>>
    \/ InterpReturn /\ UNCHANGED <<padVars, distVars, pvcVars, ccVars,
            callsVars, batchVars, corruptVars, processVars, cellVars>>

InitCell ==
    CellInit /\ PadIdle /\ DistIdle /\ PvcIdle /\ CcIdle /\ CallsIdle
      /\ BatchIdle /\ CorruptIdle /\ ProcessIdle

SpecCell == InitCell /\ [][CellNext]_vars

(* Claims about one iteration *)

\* the polar angle of a direction on the diamond |x| + |y| = 1, as the
\* fraction DiamondNum / DiamondDen: it runs from -2 (just past the negative
\* x axis) through 0 (positive x axis) to 2 (negative x axis) and grows with
\* the angle that arctan2 returns
DiamondDen(d) == IF d = <<0, 0>> THEN 1 ELSE Abs(d[1]) + Abs(d[2])
DiamondNum(d) ==
    IF d = <<0, 0>> THEN 0
    ELSE IF d[2] >= 0 THEN DiamondDen(d) - d[1] ELSE d[1] - DiamondDen(d)
DiamondLeq(d, e) ==
    DiamondNum(d) * DiamondDen(e) <= DiamondNum(e) * DiamondDen(d)

\* the last iteration looked for the cell of a point that no simplex holds
LookedUpOutsideTriangulation ==
    /\ iteration # NoIteration
    /\ SimplicesAt(tri_unrelaxed, iteration.nearest_idx) = {}

\* C24: _find_voronoi_cell returns the index of the point nearest to the
\* query point (the lowest index among equally near points) and exactly the
\* simplices of the triangulation that contain that index, each once, in
\* ascending order of the polar angle of their circumcenters around that
\* point; when no simplex contains the index the iteration ends as a skipped
\* query point and the loop goes on.
C24_NearestIndexAndCellByAngle ==
    /\ \A c \in 1..Len(find_calls) :
          LET f == find_calls[c]
              n == f.nearest_point_index
              direction(k) ==
                  VecSub(f.circumcenters[f.cell_indices[k]], f.points[n])
          IN  /\ n \in 1..Len(f.points)
              /\ \A i \in 1..Len(f.points) :
                    /\ Dist2(f.points[n], f.query_point)
                         <= Dist2(f.points[i], f.query_point)
                    /\ i < n => Dist2(f.points[n], f.query_point)
                                  < Dist2(f.points[i], f.query_point)
              /\ {f.cell_indices[k] : k \in 1..Len(f.cell_indices)}
                   = SimplicesAt(tri_unrelaxed, n)
              /\ Len(f.cell_indices)
                   = Cardinality(SimplicesAt(tri_unrelaxed, n))
              /\ \A a, b \in 1..Len(f.cell_indices) :
                    a < b => DiamondLeq(direction(a), direction(b))
              /\ f.none <=> SimplicesAt(tri_unrelaxed, n) = {}
    /\ LookedUpOutsideTriangulation =>
          /\ iteration.outcome = "find_cell"
          /\ interp_trace[Len(interp_trace)] =
                 [index |-> iteration.index, outcome |-> "find_cell"]
          /\ q_done = iteration.index
          /\ interp_pc = "loop" \/ interp_ret \in {"tuple", "None"}
          /\ interp_log[Len(interp_log)] \in
                 {"Error processing query point",
                  "No points were successfully interpolated"}

\* a cell of four simplices was found whose order by angle is not the order
\* of the simplex numbers
C24_Witness ==
    \E c \in 1..Len(find_calls) :
        /\ Len(find_calls[c].cell_indices) = 4
        /\ \E a, b \in 1..4 :
              /\ a < b
              /\ find_calls[c].cell_indices[a] > find_calls[c].cell_indices[b]

\* the last iteration fitted the local warp
FittedLocalWarp == iteration # NoIteration /\ iteration.point # <<>>

\* the pairings of the rows of vertices_relaxed with the rows of
\* vertices_unrelaxed of least total Euclidean distance, each list taken
\* relative to its own nearest point
CenteredLeastCostPairings ==
    LET n == iteration.nearest_idx
        vr == iteration.vertices_relaxed
        vu == iteration.vertices_unrelaxed
    IN  UNION {LeastCostMatchings(cost_matrix, Len(vr), Len(vu)) :
                 cost_matrix \in
                   {[r \in 1..Len(vr) |->
                       [t \in 1..Len(vu) |->
                           CdistEntry(VecSub(vr[r], relaxed_points[n]),
                                      VecSub(vu[t], unrelaxed_points[n]))]]}}

\* C21: the rows of the two local vertex lists that the local warp is fitted
\* to are paired by a least-cost matching of the two lists, not by their
\* position in the lists.
C21_FitPairsByLeastCostMatching ==
    FittedLocalWarp =>
        [k \in 1..Len(iteration.vertices_relaxed) |-> iteration.fit_rows[k]]
            \in CenteredLeastCostPairings

\* C22: every matching of _map_to_cell pairs two vertex lists of equal
\* size one to one and onto: each original vertex gets one target vertex
\* and each target vertex is used exactly once.
C22_MatchingIsBijection ==
    \A c \in 1..Len(map_calls) :
        LET m == map_calls[c]
        IN  /\ Len(m.original_vertices) = Len(m.target_vertices)
            /\ DOMAIN m.col_ind = 1..Len(m.original_vertices)
            /\ \A t \in 1..Len(m.target_vertices) :
                  Cardinality({r \in DOMAIN m.col_ind : m.col_ind[r] = t}) = 1

\* C23: in every _map_to_cell call the two vertex lists are centered at a
\* shared pivot: after centering, original_center and target_center are the
\* same point.
C23_CenteredAtSharedPivot ==
    \A c \in 1..Len(map_calls) :
        LET m == map_calls[c]
        IN  VecSub(m.original_center,
                   VecSub(m.original_center, m.target_center))
              = VecSub(m.target_center, m.target_center)

\* the rows of a vertex list, as a set
RowSet(vertices) == {vertices[k] : k \in 1..Len(vertices)}

\* the last iteration went through to the end with pairwise distinct
\* unrelaxed points
ProcessedWithDistinctPoints ==
    /\ iteration # NoIteration
    /\ iteration.outcome = "ok"
    /\ \A i, j \in 1..Len(unrelaxed_points) :
          unrelaxed_points[i] = unrelaxed_points[j] => i = j

\* C25: for a query point that is processed to the end the cross-check
\* matches the local unrelaxed cell against itself: the re-derived vertex
\* list holds exactly the vertices of vertices_unrelaxed, and the point
\* appended to interpolated_unrelaxed is the point that the local warp gave.
C25_CrossCheckReturnsWarpedPoint ==
    ProcessedWithDistinctPoints =>
        /\ RowSet(iteration.unrelaxed_vertices)
             = RowSet(iteration.vertices_unrelaxed)
        /\ Len(iteration.unrelaxed_vertices)
             = Len(iteration.vertices_unrelaxed)
        /\ interpolated_unrelaxed[Len(interpolated_unrelaxed)]
             = RatPoint(iteration.point, 1)

\* the first half of C25 alone
CrossCheckSameVertices ==
    ProcessedWithDistinctPoints =>
        RowSet(iteration.unrelaxed_vertices)
          = RowSet(iteration.vertices_unrelaxed)

----------------------------------------------------------------------------
(* weaver/corruption/generate.py: ModelCorruptor.  A model is the list of  *)
(* its parameter tensors, a tensor a sequence of integers.  The numbers    *)
(* are in units that keep the arithmetic of lines 69-73 and 114-122 in the *)
(* integers: corruption factors in units of 10^-4.3, standard deviations   *)
(* in units of 1/sqrt(2), and the draws of the generator in the units that *)
(* make factor * std * draw a multiple of the unit of the parameters.      *)

\* np.logspace(-4.3, -0.3, 12), rounded
CorruptionFactors == <<1, 2, 5, 12, 28, 66, 152, 351, 811, 1874, 4329, 10000>>

\* np.diff(self.corruption_factors)
Cdiff ==
    [i \in 1..(Len(CorruptionFactors) - 1) |->
        CorruptionFactors[i + 1] - CorruptionFactors[i]]

\* (variant of AddFac that adds the whole factor of the iteration)
AddFacWholeFactor(i) == CorruptionFactors[i + 1]

\* add_fac of iteration i = 0..11 (lines 114-117)
AddFac(i) == IF i = 0 THEN CorruptionFactors[1] ELSE Cdiff[i]

\* torch.std of a tensor of one element (nan: NF) or of two elements
TorchStd(t) ==
    IF Len(t) < 2 THEN NF ELSE Abs(t[1] - t[2])

\* the standard normal draws of the generator after torch.manual_seed(seed),
\* in the order in which they are taken
Draws(seed) ==
    IF seed = 1 THEN <<1, -1, 0, 1>> ELSE <<-1, 0, 1, 1>>

\* the number of elements of the tensors before tensor number ct
RECURSIVE ElementsBefore(_, _)
ElementsBefore(params, ct) ==
    IF ct <= 1 THEN 0
    ELSE ElementsBefore(params, ct - 1) + Len(params[ct - 1])

\* generate_noise after manual_seed(seed): raised when a standard deviation
\* is nan, with the noise arrays appended before that
GenerateNoise(params, seed) ==
    LET bad == {ct \in 1..Len(params) : IsNF(TorchStd(params[ct]))}
        n_done == IF bad = {} THEN Len(params)
                  ELSE (CHOOSE ct \in bad : \A o \in bad : ct <= o) - 1
    IN  [raised |-> bad # {},
         noise_arrays |->
             [ct \in 1..n_done |->
                 [j \in 1..Len(params[ct]) |->
                     TorchStd(params[ct])
                       * Draws(seed)[ElementsBefore(params, ct) + j]]]]

\* the parameters after the iterations 0..i of the loop of lines 106-144:
\* each iteration adds add_fac * noise to the parameters in place
RECURSIVE ParamsAfter(_, _, _)
ParamsAfter(params, noise, i) ==
    IF i < 0 THEN params
    ELSE LET before == ParamsAfter(params, noise, i - 1)
         IN  [ct \in 1..Len(params) |->
                 VecAdd(before[ct], VecScale(AddFac(i), noise[ct]))]

\* (variant of CfacFile that numbers the files from 1)
CfacFileOneBased(i) ==
    [factor |-> CorruptionFactors[i + 1], index |-> i + 1, suffix |-> ".pth"]

\* the file name f"corruptfac_{self.corruption_factors[i]}_{i}.pth"
CfacFile(i) ==
    [factor |-> CorruptionFactors[i + 1], index |-> i, suffix |-> ".pth"]

\* list(corrupted_dir.glob("*.pth"))
GlobPth(files) == {f \in files : f.name.suffix = ".pth"}

\* the iterations at which a fault of the environment is tried
CorruptFaultIndices == {0, 11}

\* what the environment does during one call: nothing, rmtree raises,
\* torch.jit.save raises in iteration `at`, or the file of iteration `at`
\* is gone when the directory is listed
CorruptEnvs ==
    {[kind |-> "none", at |-> 0], [kind |-> "rmtree_fails", at |-> 0]}
      \cup {[kind |-> k, at |-> i] :
              k \in {"save_fails", "lost"}, i \in CorruptFaultIndices}

\* the base models tried: one tensor, two tensors, a tensor of equal
\* elements, a tensor of one element after a tensor of two
BaseModels ==
    {<<<<0, 1>>>>,
     <<<<0, 1>>, <<2, 5>>>>,
     <<<<3, 3>>>>,
     <<<<0, 1>>, <<4>>>>}

Seeds == {1, 2}

\* the seeds of the calls that a caller makes on one ModelCorruptor
SeedSequences == {<<1>>, <<2>>, <<1, 1>>, <<2, 1>>, <<1, 2>>}

\* a seed directory before the first call: absent, or left by an earlier
\* run with another set of factors and a file of notes
SeedDirStates ==
    {[exists |-> FALSE, files |-> {}],
     [exists |-> TRUE,
      files |-> {[name |-> [factor |-> 3, index |-> 0, suffix |-> ".pth"],
                  params |-> <<>>],
                 [name |-> [factor |-> 7, index |-> 12, suffix |-> ".pth"],
                  params |-> <<>>],
                 [name |-> [factor |-> 0, index |-> 0, suffix |-> ".txt"],
                  params |-> <<>>]}]}

\* ModelCorruptor(base_model_path, output_dir) constructed (lines 23-57)
CorruptInit ==
    /\ base_model \in BaseModels
    /\ model = base_model
    /\ noise_arrays = <<>>
    /\ seed_dirs \in [Seeds -> SeedDirStates]
    /\ seeds_todo \in SeedSequences
    /\ corrupt_history = <<>>
    /\ corrupt_log = <<>>

\* the call ends by raising after logging msgs; n_saved files were saved
CorruptRaises(seed, msgs, noise, n_saved, counted, dir_before) ==
    /\ noise_arrays' = noise
    /\ corrupt_log' = corrupt_log \o msgs
    /\ corrupt_history' =
           Append(corrupt_history,
                  [seed |-> seed, ret |-> "raised",
                   written |-> [i \in 1..n_saved |->
                                   ParamsAfter(model, noise, i - 1)],
                   counted |-> counted,
                   dir_before |-> dir_before])

\* one call corrupt_model(seed), lines 84-155
CorruptModel ==
    /\ seeds_todo # <<>>
    /\ seeds_todo' = Tail(seeds_todo)
    /\ \E env \in CorruptEnvs, gen \in {GenerateNoise(model, Head(seeds_todo))} :
          LET seed == Head(seeds_todo)
              dir == seed_dirs[seed]
              n == Len(CorruptionFactors)
              saved(k) ==
                  {[name |-> CfacFile(i),
                    params |-> ParamsAfter(model, gen.noise_arrays, i)] :
                      i \in 0..(k - 1)}
              listed ==
                  IF env.kind = "lost"
                    THEN {f \in saved(n) : f.name.index # env.at}
                    ELSE saved(n)
          IN  CASE gen.raised ->
                     /\ CorruptRaises(seed,
                            <<"Error generating noise arrays",
                              "Error corrupting model">>,
                            gen.noise_arrays, 0, -1, dir)
                     /\ UNCHANGED <<model, seed_dirs>>
                [] ~gen.raised /\ dir.exists /\ env.kind = "rmtree_fails" ->
                     /\ CorruptRaises(seed, <<"Error corrupting model">>,
                                      gen.noise_arrays, 0, -1, dir)
                     /\ UNCHANGED <<model, seed_dirs>>
                [] ~gen.raised /\ env.kind = "save_fails"
                     /\ ~(dir.exists /\ env.kind = "rmtree_fails") ->
                     /\ CorruptRaises(seed, <<"Error corrupting model">>,
                                      gen.noise_arrays, env.at, -1, dir)
                     /\ model' = ParamsAfter(model, gen.noise_arrays, env.at)
                     /\ seed_dirs' =
                            [seed_dirs EXCEPT
                               ![seed] = [exists |-> TRUE,
                                          files |-> saved(env.at)]]
                [] OTHER ->
                     /\ model' = ParamsAfter(model, gen.noise_arrays, n - 1)
                     /\ seed_dirs' =
                            [seed_dirs EXCEPT
                               ![seed] = [exists |-> TRUE, files |-> listed]]
                     /\ IF Cardinality(GlobPth(listed)) # n
                          THEN CorruptRaises(seed,
                                   <<"Error corrupting model">>,
                                   gen.noise_arrays, n,
                                   Cardinality(GlobPth(listed)), dir)
                          ELSE /\ noise_arrays' = gen.noise_arrays
                               /\ corrupt_history' =
                                      Append(corrupt_history,
                                         [seed |-> seed, ret |-> "ok",
                                          written |->
                                            [i \in 1..n |->
                                               ParamsAfter(model,
                                                   gen.noise_arrays, i - 1)],
                                          counted |->
                                              Cardinality(GlobPth(listed)),
                                          dir_before |-> dir])
                               /\ UNCHANGED corrupt_log
    /\ UNCHANGED base_model

CorruptNext ==
    CorruptModel /\ UNCHANGED <<padVars, distVars, interpVars, pvcVars,
            ccVars, callsVars, batchVars, processVars,
            cellVars>>

InitCorrupt ==
    CorruptInit /\ PadIdle /\ DistIdle /\ InterpIdle /\ PvcIdle /\ CcIdle
      /\ CallsIdle /\ BatchIdle /\ ProcessIdle
      /\ CellIdle

SpecCorrupt == InitCorrupt /\ [][CorruptNext]_vars

(* Claims about ModelCorruptor *)

\* the 12 parameter sets that corrupt_model(seed) saves on a ModelCorruptor
\* that was just constructed from the base model
FreshWrites(seed) ==
    [i \in 1..Len(CorruptionFactors) |->
        ParamsAfter(base_model,
                    GenerateNoise(base_model, seed).noise_arrays, i - 1)]

\* C19: every successful corrupt_model(seed) saves the 12 parameter sets
\* that the seed gives on the base model, whatever corrupt_model calls were
\* made before it on the same ModelCorruptor.
C19_ReproducibleFromSeed ==
    \A k \in 1..Len(corrupt_history) :
        corrupt_history[k].ret = "ok" =>
            corrupt_history[k].written = FreshWrites(corrupt_history[k].seed)

\* the call that returned last
LastCorrupt == corrupt_history[Len(corrupt_history)]

\* C20: after a successful corrupt_model(seed) the directory of the seed
\* exists and its .pth files are 12, one for each index 0..11, also when
\* the directory existed with other files before the call; and a call that
\* counted another number of .pth files raised.
C20_TwelveFilesOrRaise ==
    /\ (Len(corrupt_history) > 0 /\ LastCorrupt.ret = "ok") =>
          LET dir == seed_dirs[LastCorrupt.seed]
          IN  /\ dir.exists
              /\ Cardinality(GlobPth(dir.files)) = 12
              /\ \A i \in 0..11 :
                    Cardinality({f \in GlobPth(dir.files) :
                                    f.name.index = i}) = 1
    /\ \A k \in 1..Len(corrupt_history) :
          corrupt_history[k].counted \notin {-1, 12} =>
              corrupt_history[k].ret = "raised"

\* a call succeeded on a directory that held three other files before it
C20_Witness ==
    /\ Len(corrupt_history) > 0
    /\ LastCorrupt.ret = "ok"
    /\ LastCorrupt.dir_before.exists
    /\ Cardinality(LastCorrupt.dir_before.files) = 3

\* the call came first on the ModelCorruptor: its parameters were those of
\* the base model when it started
FirstCorrupt == corrupt_history[1]

\* C27: in a corrupt_model run that starts from the base model, the
\* parameters saved at index i = 0..11 are base + corruption_factors[i] *
\* noise, with the noise arrays that the run generated: the increments
\* corruption_factors[0], cdiff[0], ..., cdiff[i-1] add up to
\* corruption_factors[i].
C27_SavedIsBasePlusFactorTimesNoise ==
    Len(corrupt_history) > 0 =>
        LET noise == GenerateNoise(base_model, FirstCorrupt.seed).noise_arrays
        IN  \A i \in 1..Len(FirstCorrupt.written) :
                FirstCorrupt.written[i] =
                    [ct \in 1..Len(base_model) |->
                        VecAdd(base_model[ct],
                               VecScale(CorruptionFactors[i], noise[ct]))]

\* a first run saved all 12 models, with noise that is not zero
C27_Witness ==
    /\ Len(corrupt_history) > 0
    /\ FirstCorrupt.ret = "ok"
    /\ Len(FirstCorrupt.written) = 12
    /\ FirstCorrupt.written[12] # base_model

----------------------------------------------------------------------------
(* scripts/4_process_distances.py: process_distances.  A row of the input  *)
(* is <<seed, corruption_idx, distance>> with integer entries; a mean is   *)
(* the record [num, den] of a reduced fraction, and 0/0 is the nan that    *)
(* np.mean gives for an empty list.                                        *)

\* largest number of rows of distances_array
MaxDistanceRows == 3

\* range(12) of line 87 and range(10) of line 89
NumCorruptionIdx == 12
NumSeeds == 10

\* a fraction in lowest terms, the denominator positive; 0/0 stays 0/0
Fraction(num, den) ==
    IF den = 0 THEN [num |-> 0, den |-> 0]
    ELSE LET g == Gcd(Abs(num), den)
         IN  [num |-> num \div g, den |-> den \div g]

\* np.mean of a list of integers
MeanOfIntegers(values) == Fraction(SumSeq(values), Len(values))

\* np.mean of a list of means
RECURSIVE SumOfFractions(_)
SumOfFractions(means) ==
    IF means = <<>> THEN [num |-> 0, den |-> 1]
    ELSE LET rest == SumOfFractions(Tail(means))
             m == Head(means)
         IN  Fraction(m.num * rest.den + rest.num * m.den, m.den * rest.den)

MeanOfMeans(means) ==
    IF means = <<>> THEN Fraction(0, 0)
    ELSE LET total == SumOfFractions(means)
         IN  Fraction(total.num, total.den * Len(means))

\* the sort key lambda x: (x[1], x[0]) of lines 77 and 100
KeyLess(x, y) == x[2] < y[2] \/ (x[2] = y[2] /\ x[1] < y[1])

\* sorted(rows, key=lambda x: (x[1], x[0])): a stable sort
RECURSIVE SortedByIdxAndSeed(_)
SortedByIdxAndSeed(rows) ==
    IF rows = <<>> THEN <<>>
    ELSE LET m == CHOOSE i \in 1..Len(rows) :
                      /\ \A j \in 1..Len(rows) : ~KeyLess(rows[j], rows[i])
                      /\ \A j \in 1..(i - 1) : KeyLess(rows[i], rows[j])
         IN  <<rows[m]>> \o
                 SortedByIdxAndSeed(
                     [k \in 1..(Len(rows) - 1) |->
                         IF k < m THEN rows[k] ELSE rows[k + 1]])

\* the grouping key lambda x: x[1] of line 81
GroupKey(x) == <<x[2]>>

\* itertools.groupby(sorted_data, key): the runs of consecutive rows with
\* equal keys, in order
RECURSIVE GroupBy(_)
GroupBy(sorted_data) ==
    IF sorted_data = <<>> THEN <<>>
    ELSE LET key == GroupKey(sorted_data[1])
             n == CHOOSE k \in 1..Len(sorted_data) :
                      /\ \A j \in 1..k : GroupKey(sorted_data[j]) = key
                      /\ k < Len(sorted_data) =>
                             GroupKey(sorted_data[k + 1]) # key
         IN  <<SubSeq(sorted_data, 1, n)>> \o
                 GroupBy(SubSeq(sorted_data, n + 1, Len(sorted_data)))

\* average_over_relaxations(group), lines 67-73: the first two entries of
\* the first row of the group and the mean of the distances of all its rows
AverageOverRelaxations(group) ==
    <<group[1][1], group[1][2],
      MeanOfIntegers([k \in 1..Len(group) |-> group[k][3]])>>

\* grouped_data after the loop of lines 81-84: per corruption index, the
\* averaged rows of the groups with that index
GroupedData(sorted_data, corruption_factor) ==
    LET groups == GroupBy(sorted_data)
        averaged == [g \in 1..Len(groups) |-> AverageOverRelaxations(groups[g])]
    IN  SelectSeq(averaged, LAMBDA row : row[2] = corruption_factor)

\* lines 87-96 for one corruption_factor in range(12): the rows appended
\* for the seeds of range(10) that no row of grouped_data has
MissingSeedRows(grouped, corruption_factor) ==
    LET existing_seeds == {grouped[k][1] : k \in 1..Len(grouped)}
        missing_seeds == (0..(NumSeeds - 1)) \ existing_seeds
        avg_distance ==
            MeanOfMeans([k \in 1..Len(grouped) |-> grouped[k][3]])
    IN  {<<seed, corruption_factor, avg_distance>> : seed \in missing_seeds}

\* sorted(rows, key=lambda x: (x[1], x[0])) for a set of rows with distinct
\* keys (the order in which they are listed before the sort of line 100 does
\* not matter for them): a row stands after the rows with smaller keys
SortedDistinct(S) ==
    LET ranked ==
            {<<Cardinality({y \in S : KeyLess(y, r)}) + 1, r>> : r \in S}
    IN  [k \in 1..Cardinality(S) |->
            (CHOOSE p \in ranked : p[1] = k)[2]]

\* the indexing x[1] (line 77) or group_array[:, 2] (line 72) raises
\* IndexError for rows of fewer than three entries
ProcessRaises(arr) == \E k \in 1..Len(arr) : Len(arr[k]) < 3

\* the try block of process_distances, lines 76-102
ProcessDistancesRows(arr) ==
    LET sorted_data == SortedByIdxAndSeed(arr)
        keys == {sorted_data[k][2] : k \in 1..Len(sorted_data)}
                  \cup (0..(NumCorruptionIdx - 1))
        rows_of(c) ==
            LET grouped == GroupedData(sorted_data, c)
            IN  {grouped[k] : k \in 1..Len(grouped)}
                  \cup (IF c \in 0..(NumCorruptionIdx - 1)
                          THEN MissingSeedRows(grouped, c)
                          ELSE {})
    IN  SortedDistinct(UNION {rows_of(c) : c \in keys})

(* The inputs tried *)
ProcessSeeds == {0, 1}
ProcessIdx == {0, 1}
ProcessDistanceValues == {1, 3}

ProcessInputs ==
    UNION {[1..n -> ProcessSeeds \X ProcessIdx \X ProcessDistanceValues] :
             n \in 0..MaxDistanceRows}
      \cup {<<<<0, 0>>>>}

ProcessInit ==
    /\ distances_array \in ProcessInputs
    /\ process_pc = "call"
    /\ process_ret = "pending"
    /\ final_array = <<>>
    /\ process_log = <<>>

\* one call process_distances(distances_array, logger)
ProcessDistances ==
    /\ process_pc = "call"
    /\ process_pc' = "returned"
    /\ IF ProcessRaises(distances_array)
         THEN /\ process_ret' = "None"
              /\ process_log' = <<"Error processing distances">>
              /\ UNCHANGED final_array
         ELSE /\ process_ret' = "array"
              /\ final_array' = ProcessDistancesRows(distances_array)
              /\ UNCHANGED process_log
    /\ UNCHANGED distances_array

ProcessNext ==
    ProcessDistances /\ UNCHANGED <<padVars, distVars, interpVars, pvcVars,
            ccVars, callsVars, batchVars, corruptVars,
            cellVars>>

InitProcess ==
    ProcessInit /\ PadIdle /\ DistIdle /\ InterpIdle /\ PvcIdle /\ CcIdle
      /\ CallsIdle /\ BatchIdle /\ CorruptIdle /\ CellIdle

SpecProcess == InitProcess /\ [][ProcessNext]_vars

(* Claims about process_distances *)

\* the (seed, corruption index) pairs of the input rows
InputPairs ==
    {<<distances_array[k][1], distances_array[k][2]>> :
        k \in 1..Len(distances_array)}

\* the mean of the input distances of one (seed, corruption index) pair
PairMean(pair) ==
    LET own == SelectSeq(distances_array,
                         LAMBDA x : x[1] = pair[1] /\ x[2] = pair[2])
    IN  MeanOfIntegers([k \in 1..Len(own) |-> own[k][3]])

FinalRows == {final_array[k] : k \in 1..Len(final_array)}

\* the means of the pairs of one corruption index, by seed
IndexPairMeans(c) ==
    LET rows == SortedDistinct({<<pair[1], pair[2], PairMean(pair)>> :
                                  pair \in {q \in InputPairs : q[2] = c}})
    IN  [k \in 1..Len(rows) |-> rows[k][3]]

\* C26: process_distances averages only over the rows of one (seed,
\* corruption index) pair: the output has, for every pair of the input, a
\* row with the mean of that pair's distances, so that seeds keep their own
\* values; the seeds 0..9 that an index of 0..11 lacks get the mean of the
\* rows of that index; and the output is sorted by (index, seed).
C26_AveragesPerSeedAndIndex ==
    (process_pc = "returned" /\ process_ret = "array") =>
        /\ \A pair \in InputPairs :
              <<pair[1], pair[2], PairMean(pair)>> \in FinalRows
        /\ \A c \in 0..(NumCorruptionIdx - 1), s \in 0..(NumSeeds - 1) :
              (<<s, c>> \notin InputPairs
                 /\ \E pair \in InputPairs : pair[2] = c) =>
                  \E row \in FinalRows :
                      /\ row[1] = s /\ row[2] = c
                      /\ row[3] =
                           MeanOfMeans(IndexPairMeans(c))
        /\ \A k \in 1..(Len(final_array) - 1) :
              KeyLess(final_array[k], final_array[k + 1])

====
